---------------------------- MODULE Spec2Model ----------------------------
(***************************************************************************)
(* Order placement of the pizzeria backend (management command             *)
(* place_order): item resolution, the birthday / loyalty / code discount   *)
(* pipeline, loyalty ledger, code redemption and courier assignment, run   *)
(* by concurrent placements against one shared relational store.           *)
(*                                                                         *)
(* Money is an integer number of units of 10^-7 euro, which represents     *)
(* every Decimal the command computes exactly: prices and code values have *)
(* 2 decimals, the loyalty discount 3, a percentage code discount 7.       *)
(* Time is in minutes; a calendar day has MinutesPerDay minutes.           *)
(*                                                                         *)
(* The store is read-committed: each statement reads the committed rows    *)
(* plus the transaction's own writes; writes made inside                   *)
(* transaction.atomic() are pending in tx[p] until Commit and are dropped  *)
(* when the block raises.  The order header is modelled as the values the  *)
(* command hands to CustomerOrder.objects.create.                          *)
(***************************************************************************)
EXTENDS Integers, Sequences, FiniteSets, TLC

VARIABLES
    now,          \* the wall clock, timezone.now(), in minutes
    loyaltyTbl,   \* committed CustomerLoyalty rows, in insertion order
    usedCount,    \* committed DiscountCode.used_count, per code row
    redemptions,  \* committed CustomerDiscountRedemption rows, counted per (customer, code)
    courierNext,  \* committed DeliveryPerson.next_available_at, per courier
    orders,       \* committed CustomerOrder rows with their items, in commit order
    pc,           \* each placement's position in Command.handle
    req,          \* each placement's command-line options
    loyalty,      \* each placement's in-memory CustomerLoyalty object
    dcode,        \* each placement's in-memory DiscountCode object
    odt,          \* each placement's order_datetime
    tx,           \* each placement's pending (uncommitted) writes and row locks
    result,       \* how each placement's last attempt ended
    report,       \* the identifiers the error message of that attempt lists
    started,      \* number of placements started so far
    catalog       \* the current sale price of each pizza, drink and dessert, in cents

vars == <<now, loyaltyTbl, usedCount, redemptions, courierNext, orders,
          pc, req, loyalty, dcode, odt, tx, result, report, started, catalog>>

\* None / NULL of a nullable number (a date, a time, a primary key)
Null == -1
\* no CommandError
NoError == "none"

---------------------------------------------------------------------------
(* Bounds of the model. *)

\* placements started in one behaviour of Spec
MaxPlacements == 2
\* placements started in one behaviour of PricingSpec
MaxPricedPlacements == 1
\* placements started in one behaviour of LiveSpec
MaxLivePlacements == 2
\* placements started in one behaviour of RedeemSpec
MaxRedeemPlacements == 3
\* placements started in one behaviour of CatalogSpec
MaxCatalogPlacements == 2
\* the clock stops advancing after this many ticks
MaxTicks == 1

---------------------------------------------------------------------------
(* Representation of Decimal and of time. *)

\* units of 10^-7 euro in one cent, the quantum Decimal('0.01')
Cent == 100000
\* units of 10^-7 euro in 10^-3 euro
Milli == 10000
MinutesPerDay == 1440
\* timedelta(minutes=30)
CooldownMinutes == 30
\* minutes the clock advances in one Tick
TickMinutes == CooldownMinutes
\* clock at Init: 23:45 of day 0
StartMinute == MinutesPerDay - 15

Abs(x) == IF x < 0 THEN -x ELSE x
Min(a, b) == IF a < b THEN a ELSE b
Max(a, b) == IF a > b THEN a ELSE b

\* Decimal(<a DecimalField with 2 decimal places>), from the stored cents
Dec(cents) == cents * Cent

\* x.quantize(Decimal('0.01'), rounding=ROUND_HALF_UP): ties go away from zero
Quantize(x) == (IF x < 0 THEN -1 ELSE 1) * (((Abs(x) + Cent \div 2) \div Cent) * Cent)

\* order_datetime.date() as a day number, and its (month, day)
DateOf(t) == t \div MinutesPerDay
MonthDay(d) == <<3, 14 + d>>

RECURSIVE SumSeq(_)
SumSeq(s) == IF s = <<>> THEN 0 ELSE Head(s) + SumSeq(Tail(s))


---------------------------------------------------------------------------
(* The rows the placements run against. *)

Procs == {1, 2}

\* Customer rows: birthdate as (month, day), and the postal area
NoBirthdate == <<0, 0>>
Customers == {1, 2}
Birthdate(c) == IF c = 1 THEN <<3, 15>> ELSE <<4, 15>>
PostalCode(c) == 1000

\* pizza_pricing view rows: pizza id -> final_price_with_vat in cents
PizzaPricingRows == (1 :> 1005) @@ (2 :> 1000) @@ (3 :> 300) @@ (4 :> 800)
\* Pizza.is_active; the view lists every pizza
PizzaActive == (1 :> TRUE) @@ (2 :> TRUE) @@ (3 :> TRUE) @@ (4 :> FALSE)
\* Drink and Dessert rows: id -> price_eur in cents, is_active
DrinkRows ==
    (1 :> [price_eur |-> 250, is_active |-> TRUE]) @@ (2 :> [price_eur |-> 150, is_active |-> FALSE])
    @@ (3 :> [price_eur |-> 180, is_active |-> TRUE])
DessertRows == (1 :> [price_eur |-> 400, is_active |-> TRUE])
\* the prices the lookups of _build_order_items read, at the start
InitCatalog ==
    [pizza |-> PizzaPricingRows,
     drink |-> [id \in DOMAIN DrinkRows |-> DrinkRows[id].price_eur],
     dessert |-> [id \in DOMAIN DessertRows |-> DessertRows[id].price_eur]]

\* DiscountCode.code values, as sequences of character codes
StrONCE == <<79, 78, 67, 69>>
StrLAST == <<76, 65, 83, 84>>
StrBIG == <<66, 73, 71>>
StrOLD == <<79, 76, 68>>
StrOFF == <<79, 70, 70>>
StrNEW == <<78, 69, 87>>

\* DiscountCode rows by primary key (used_count is state: usedCount)
CodeRows ==
    (1 :> [code |-> StrONCE, discount_type |-> "fixed_amount", discount_value |-> 500,
           valid_from |-> 0, valid_until |-> Null, is_one_time |-> TRUE,
           usage_limit |-> 1, is_active |-> TRUE])
    @@ (2 :> [code |-> StrLAST, discount_type |-> "percentage", discount_value |-> 1500,
           valid_from |-> 0, valid_until |-> Null, is_one_time |-> FALSE,
           usage_limit |-> 2, is_active |-> TRUE])
    @@ (3 :> [code |-> StrBIG, discount_type |-> "percentage", discount_value |-> 15000,
           valid_from |-> 0, valid_until |-> Null, is_one_time |-> FALSE,
           usage_limit |-> 3, is_active |-> TRUE])
    @@ (4 :> [code |-> StrOLD, discount_type |-> "fixed_amount", discount_value |-> 200,
           valid_from |-> 0, valid_until |-> 0, is_one_time |-> FALSE,
           usage_limit |-> 3, is_active |-> TRUE])
    @@ (5 :> [code |-> StrOFF, discount_type |-> "fixed_amount", discount_value |-> 200,
           valid_from |-> 0, valid_until |-> Null, is_one_time |-> FALSE,
           usage_limit |-> 3, is_active |-> FALSE])
    @@ (6 :> [code |-> StrNEW, discount_type |-> "fixed_amount", discount_value |-> 200,
           valid_from |-> 1, valid_until |-> Null, is_one_time |-> FALSE,
           usage_limit |-> 3, is_active |-> TRUE])
CodeIds == DOMAIN CodeRows
InitUsedCount == (1 :> 0) @@ (2 :> 1) @@ (3 :> 0) @@ (4 :> 0) @@ (5 :> 0) @@ (6 :> 0)

\* CustomerLoyalty rows at the start: customer 1 has an account, customer 2 none
InitLoyaltyRows == <<[customer |-> 1, lifetime_pizzas |-> 18, pizzas_since_last_reward |-> 8]>>

\* DeliveryPerson rows and their DeliveryZoneAssignment rows (postal code -> priority)
Couriers == {1, 2, 3, 4, 5}
CourierActive == (1 :> TRUE) @@ (2 :> TRUE) @@ (3 :> TRUE) @@ (4 :> FALSE) @@ (5 :> TRUE)
ZoneAssignments ==
    (1 :> (1000 :> 1)) @@ (2 :> ((1000 :> 1) @@ (2000 :> 2))) @@ (3 :> (2000 :> 1))
    @@ (4 :> (1000 :> 1)) @@ (5 :> ((1000 :> 2) @@ (2000 :> 1)))
\* couriers 2 and 5 are out: 5 until 23:50, 2 until 00:15
InitCourierNext ==
    (1 :> Null) @@ (2 :> MinutesPerDay + 15) @@ (3 :> Null) @@ (4 :> Null)
    @@ (5 :> MinutesPerDay - 10)

---------------------------------------------------------------------------
(* Command._parse_specs *)

\* A raw "<id>[:qty]" value is [form, ident, qty]: form "id" for digits alone
\* (quantity 1), "id:qty" for digits:digits, "malformed" when either part is
\* not all digits.
SpecInvalidAllowingZero(raw) == raw.form = "malformed"

SpecInvalid(raw) ==
    \/ raw.form = "malformed"
    \/ raw.form = "id:qty" /\ raw.qty <= 0

ParseFails(raw_values) == \E i \in DOMAIN raw_values : SpecInvalid(raw_values[i])

ParseSpecs(raw_values) ==
    IF ParseFails(raw_values)
    THEN <<>>
    ELSE [i \in DOMAIN raw_values |->
            [identifier |-> raw_values[i].ident,
             quantity |-> IF raw_values[i].form = "id" THEN 1 ELSE raw_values[i].qty]]

---------------------------------------------------------------------------
(* Command._build_order_items *)

\* PizzaPricing.objects.filter(pizza__id__in=pizza_ids)
PricingMap(pizza_ids) == {id \in pizza_ids : id \in DOMAIN PizzaPricingRows}
\* Drink.objects.filter(pk__in=drink_ids, is_active=True)
DrinkMap(drink_ids) == {id \in drink_ids : id \in DOMAIN DrinkRows /\ DrinkRows[id].is_active}
\* Dessert.objects.filter(pk__in=dessert_ids, is_active=True)
DessertMap(dessert_ids) == {id \in dessert_ids : id \in DOMAIN DessertRows /\ DessertRows[id].is_active}

Ids(specs) == {specs[i].identifier : i \in DOMAIN specs}

PizzaItems(pizzas) ==
    [i \in DOMAIN pizzas |->
        [type |-> "pizza", id |-> pizzas[i].identifier, quantity |-> pizzas[i].quantity,
         price |-> Dec(catalog.pizza[pizzas[i].identifier])]]
DrinkItems(drinks) ==
    [i \in DOMAIN drinks |->
        [type |-> "drink", id |-> drinks[i].identifier, quantity |-> drinks[i].quantity,
         price |-> Dec(catalog.drink[drinks[i].identifier])]]
DessertItems(desserts) ==
    [i \in DOMAIN desserts |->
        [type |-> "dessert", id |-> desserts[i].identifier, quantity |-> desserts[i].quantity,
         price |-> Dec(catalog.dessert[desserts[i].identifier])]]

LineTotals(items) == [i \in DOMAIN items |-> items[i].price * items[i].quantity]
Quantities(items) == [i \in DOMAIN items |-> items[i].quantity]

\* the missing_* sets, in the order the builder checks them
MissingPizzasFirstOnly(pizzas) ==
    LET unresolved == {i \in DOMAIN pizzas : pizzas[i].identifier \notin PricingMap(Ids(pizzas))}
    IN  {pizzas[i].identifier : i \in {j \in unresolved : \A k \in unresolved : j <= k}}
MissingPizzas(pizzas) == Ids(pizzas) \ PricingMap(Ids(pizzas))
MissingDrinks(drinks) == Ids(drinks) \ DrinkMap(Ids(drinks))
MissingDesserts(desserts) == Ids(desserts) \ DessertMap(Ids(desserts))

BuildOrderItemsCountingLines(pizzas, drinks, desserts) ==
    IF MissingPizzas(pizzas) # {}
    THEN [error |-> "UnknownOrInactiveProduct", missing |-> MissingPizzas(pizzas)]
    ELSE IF MissingDrinks(drinks) # {}
    THEN [error |-> "UnknownOrInactiveProduct", missing |-> MissingDrinks(drinks)]
    ELSE IF MissingDesserts(desserts) # {}
    THEN [error |-> "UnknownOrInactiveProduct", missing |-> MissingDesserts(desserts)]
    ELSE [error |-> NoError,
          items |-> PizzaItems(pizzas) \o DrinkItems(drinks) \o DessertItems(desserts),
          subtotal |-> SumSeq(LineTotals(PizzaItems(pizzas)))
                       + SumSeq(LineTotals(DrinkItems(drinks)))
                       + SumSeq(LineTotals(DessertItems(desserts))),
          pizza_subtotal |-> SumSeq(LineTotals(PizzaItems(pizzas))),
          pizza_count |-> Len(PizzaItems(pizzas))]

BuildOrderItems(pizzas, drinks, desserts) ==
    IF MissingPizzas(pizzas) # {}
    THEN [error |-> "UnknownOrInactiveProduct", missing |-> MissingPizzas(pizzas)]
    ELSE IF MissingDrinks(drinks) # {}
    THEN [error |-> "UnknownOrInactiveProduct", missing |-> MissingDrinks(drinks)]
    ELSE IF MissingDesserts(desserts) # {}
    THEN [error |-> "UnknownOrInactiveProduct", missing |-> MissingDesserts(desserts)]
    ELSE [error |-> NoError,
          items |-> PizzaItems(pizzas) \o DrinkItems(drinks) \o DessertItems(desserts),
          subtotal |-> SumSeq(LineTotals(PizzaItems(pizzas)))
                       + SumSeq(LineTotals(DrinkItems(drinks)))
                       + SumSeq(LineTotals(DessertItems(desserts))),
          pizza_subtotal |-> SumSeq(LineTotals(PizzaItems(pizzas))),
          pizza_count |-> SumSeq(Quantities(PizzaItems(pizzas)))]

---------------------------------------------------------------------------
(* The three discount calculators and the final amounts. *)

PricesOf(items, type) == {items[i].price : i \in {j \in DOMAIN items : items[j].type = type}}
Cheapest(prices) == CHOOSE m \in prices : \A x \in prices : m <= x

ComputeBirthdayDiscountPerQuantity(birthdate, order_datetime, items) ==
    IF birthdate = NoBirthdate \/ birthdate # MonthDay(DateOf(order_datetime))
    THEN [total |-> 0, pizza_component |-> 0]
    ELSE LET LineTotalsOf(type) ==
                 {items[i].price * items[i].quantity : i \in {j \in DOMAIN items : items[j].type = type}}
             pizzaTotals == LineTotalsOf("pizza")
             drinkTotals == LineTotalsOf("drink")
             cheapest_pizza == IF pizzaTotals = {} THEN 0 ELSE Cheapest(pizzaTotals)
             cheapest_drink == IF drinkTotals = {} THEN 0 ELSE Cheapest(drinkTotals)
         IN  [total |-> cheapest_pizza + cheapest_drink, pizza_component |-> cheapest_pizza]

\* Command._compute_birthday_discount
ComputeBirthdayDiscount(birthdate, order_datetime, items) ==
    IF birthdate = NoBirthdate
    THEN [total |-> 0, pizza_component |-> 0]
    ELSE IF birthdate # MonthDay(DateOf(order_datetime))
    THEN [total |-> 0, pizza_component |-> 0]
    ELSE LET pizzaPrices == PricesOf(items, "pizza")
             drinkPrices == PricesOf(items, "drink")
             cheapest_pizza == IF pizzaPrices = {} THEN 0 ELSE Cheapest(pizzaPrices)
             cheapest_drink == IF drinkPrices = {} THEN 0 ELSE Cheapest(drinkPrices)
         IN  [total |-> cheapest_pizza + cheapest_drink, pizza_component |-> cheapest_pizza]

ComputeLoyaltyDiscountNoWrap(loy, pizza_count, pizza_subtotal, birthday_pizza_component) ==
    IF pizza_count <= 0
    THEN [discount |-> 0, loyalty |-> loy]
    ELSE LET total_pizzas == loy.pizzas_since_last_reward + pizza_count
             eligible_base == Max(pizza_subtotal - birthday_pizza_component, 0)
         IN  [discount |-> IF total_pizzas \div 10 > 0 /\ pizza_subtotal > 0
                           THEN eligible_base \div 10
                           ELSE 0,
              loyalty |-> [loy EXCEPT !.pizzas_since_last_reward = total_pizzas,
                                      !.lifetime_pizzas = loy.lifetime_pizzas + pizza_count]]

ComputeLoyaltyDiscountPerCycle(loy, pizza_count, pizza_subtotal, birthday_pizza_component) ==
    IF pizza_count <= 0
    THEN [discount |-> 0, loyalty |-> loy]
    ELSE LET total_pizzas == loy.pizzas_since_last_reward + pizza_count
             reward_cycles == total_pizzas \div 10
             eligible_base == Max(pizza_subtotal - birthday_pizza_component, 0)
         IN  [discount |-> IF reward_cycles > 0 /\ pizza_subtotal > 0
                           THEN reward_cycles * (eligible_base \div 10)
                           ELSE 0,
              loyalty |-> [loy EXCEPT !.pizzas_since_last_reward = total_pizzas % 10,
                                      !.lifetime_pizzas = loy.lifetime_pizzas + pizza_count]]

\* Command._compute_loyalty_discount: the discount, and the loyalty object as
\* the call leaves it
ComputeLoyaltyDiscount(loy, pizza_count, pizza_subtotal, birthday_pizza_component) ==
    IF pizza_count <= 0
    THEN [discount |-> 0, loyalty |-> loy]
    ELSE LET total_pizzas == loy.pizzas_since_last_reward + pizza_count
             reward_cycles == total_pizzas \div 10
             remainder == total_pizzas % 10
             eligible_base == Max(pizza_subtotal - birthday_pizza_component, 0)
         IN  [discount |-> IF reward_cycles > 0 /\ pizza_subtotal > 0
                           THEN eligible_base \div 10
                           ELSE 0,
              loyalty |-> [loy EXCEPT !.pizzas_since_last_reward = remainder,
                                      !.lifetime_pizzas = loy.lifetime_pizzas + pizza_count]]

ComputeCodeDiscountUncapped(code_pk, taxable_amount) ==
    IF code_pk = Null \/ taxable_amount <= 0
    THEN 0
    ELSE IF CodeRows[code_pk].discount_type = "percentage"
    THEN (taxable_amount \div Milli) * CodeRows[code_pk].discount_value
    ELSE Dec(CodeRows[code_pk].discount_value)

\* Command._compute_code_discount; code_pk is Null for no code.  The product
\* taxable_amount * (value / 100) is exact: taxable_amount has at most 3
\* decimals, value / 100 at most 4.
ComputeCodeDiscount(code_pk, taxable_amount) ==
    IF code_pk = Null \/ taxable_amount <= 0
    THEN 0
    ELSE IF CodeRows[code_pk].discount_type = "percentage"
    THEN (taxable_amount \div Milli) * CodeRows[code_pk].discount_value
    ELSE Min(Dec(CodeRows[code_pk].discount_value), taxable_amount)

\* Command.handle, line 89
DiscountTotal(birthday, loyalty_discount, code_discount) ==
    Quantize(birthday + loyalty_discount + code_discount)

TotalDueClamped(subtotal, discount_total) == Max(Quantize(subtotal - discount_total), 0)
\* Command.handle, line 91 (subtotal already quantized on line 90)
TotalDue(subtotal, discount_total) == Quantize(subtotal - discount_total)

\* Command.handle, lines 81-94: the amounts of the order header, and the
\* loyalty object after _compute_loyalty_discount
PriceOrder(customer, order_datetime, loy, code_pk, order_data) ==
    LET birthday_discount == ComputeBirthdayDiscount(Birthdate(customer), order_datetime, order_data.items)
        loyalty_result == ComputeLoyaltyDiscount(loy, order_data.pizza_count, order_data.pizza_subtotal,
                                                 birthday_discount.pizza_component)
        loyalty_discount == loyalty_result.discount
        taxable_amount == order_data.subtotal - birthday_discount.total - loyalty_discount
        code_discount == ComputeCodeDiscount(code_pk, taxable_amount)
        discount_total == DiscountTotal(birthday_discount.total, loyalty_discount, code_discount)
        subtotal == Quantize(order_data.subtotal)
    IN  [subtotal_amount |-> subtotal,
         discount_amount |-> discount_total,
         total_due |-> TotalDue(subtotal, discount_total),
         birthday_discount_amount |-> Quantize(birthday_discount.total),
         loyalty_discount_amount |-> Quantize(loyalty_discount),
         code_discount_amount |-> Quantize(code_discount),
         \* not persisted: the unrounded values, kept to state the properties
         raw_birthday |-> birthday_discount.total,
         birthday_pizza_component |-> birthday_discount.pizza_component,
         since_before |-> loy.pizzas_since_last_reward,
         raw_loyalty |-> loyalty_discount,
         raw_code |-> code_discount,
         taxable_amount |-> taxable_amount,
         loyalty |-> loyalty_result.loyalty]

---------------------------------------------------------------------------
(* Command._resolve_discount_code *)

Upper(ch) == IF ch \in 97..122 THEN ch - 32 ELSE ch
IsSpace(ch) == ch = 32
RECURSIVE LStrip(_)
LStrip(str) == IF str # <<>> /\ IsSpace(Head(str)) THEN LStrip(Tail(str)) ELSE str
RECURSIVE RStrip(_)
RStrip(str) ==
    IF str # <<>> /\ IsSpace(str[Len(str)]) THEN RStrip(SubSeq(str, 1, Len(str) - 1)) ELSE str
\* str.strip()
Strip(str) == LStrip(RStrip(str))
\* the code__iexact lookup
IExact(a, b) == [i \in DOMAIN a |-> Upper(a[i])] = [i \in DOMAIN b |-> Upper(b[i])]

\* the rows DiscountCode.objects.get(code__iexact=code_value.strip()) matches
CodeMatches(code_value) == {k \in CodeIds : IExact(CodeRows[k].code, Strip(code_value))}

\* line 321
CodeExhausted(used_count, usage_limit) == used_count >= usage_limit

ResolveDiscountCodeDroppingInvalid(code_value, today, used) ==
    IF code_value = <<>> \/ CodeMatches(code_value) = {}
    THEN [error |-> NoError, pk |-> Null]
    ELSE LET k == CHOOSE k \in CodeMatches(code_value) : TRUE
             row == CodeRows[k]
         IN  IF \/ ~row.is_active
                \/ row.valid_from > today
                \/ (row.valid_until # Null /\ row.valid_until < today)
                \/ CodeExhausted(used[k], row.usage_limit)
             THEN [error |-> NoError, pk |-> Null]
             ELSE [error |-> NoError, pk |-> k]

\* The outcome of _resolve_discount_code for the option value code_value (<<>>
\* for an absent or empty option) read on day `today` against used counts `used`.
ResolveDiscountCode(code_value, today, used) ==
    IF code_value = <<>>
    THEN [error |-> NoError, pk |-> Null]
    ELSE IF CodeMatches(code_value) = {}
    THEN [error |-> "CodeNotFound", pk |-> Null]
    ELSE LET k == CHOOSE k \in CodeMatches(code_value) : TRUE
             row == CodeRows[k]
         IN  IF \/ ~row.is_active
                \/ row.valid_from > today
                \/ (row.valid_until # Null /\ row.valid_until < today)
             THEN [error |-> "CodeNotCurrentlyValid", pk |-> Null]
             ELSE IF CodeExhausted(used[k], row.usage_limit)
             THEN [error |-> "CodeFullyRedeemed", pk |-> Null]
             ELSE [error |-> NoError, pk |-> k]

---------------------------------------------------------------------------
(* The store as one placement's statements see it. *)

\* a customer without a loyalty row: getattr(customer, 'loyalty', None) is None
NoLoyalty == [pk |-> Null, lifetime_pizzas |-> 0, pizzas_since_last_reward |-> 0]
NoCode == [pk |-> Null, used_count |-> 0]
\* the options of a placement that is not running
NoRequest ==
    [customer |-> 0, pizza |-> <<>>, drink |-> <<>>, dessert |-> <<>>,
     discount_code |-> <<>>, delivery_type |-> "pickup"]
\* a transaction that has written nothing
EmptyTx ==
    [loyalty_insert |-> FALSE,  \* INSERT of a CustomerLoyalty row for the customer
     loyalty_row |-> <<>>,      \* the values last written to the loyalty row
     code_used |-> Null,        \* UPDATE of the code row's used_count
     redemption |-> FALSE,      \* INSERT of a CustomerDiscountRedemption row
     order |-> <<>>,            \* INSERT of the order, its items and its discount application
     courier |-> Null]          \* the courier row locked and updated

\* primary keys of the committed loyalty rows of customer c
LoyaltyPks(c) == {i \in DOMAIN loyaltyTbl : loyaltyTbl[i].customer = c}

\* Customer.objects.select_related('loyalty').get(pk=...): the loyalty object
LoadLoyalty(c) ==
    IF LoyaltyPks(c) = {}
    THEN NoLoyalty
    ELSE LET i == CHOOSE i \in LoyaltyPks(c) : TRUE
         IN  [pk |-> i, lifetime_pizzas |-> loyaltyTbl[i].lifetime_pizzas,
              pizzas_since_last_reward |-> loyaltyTbl[i].pizzas_since_last_reward]

\* row locks other transactions hold
LoyaltyInsertHeldByOther(p, c) ==
    \E q \in Procs \ {p} : tx[q].loyalty_insert /\ req[q].customer = c
LoyaltyRowHeldByOther(p, pk) ==
    \E q \in Procs \ {p} : tx[q].loyalty_row # <<>> /\ ~tx[q].loyalty_insert /\ loyalty[q].pk = pk
CodeRowHeldByOther(p, k) ==
    \E q \in Procs \ {p} : tx[q].code_used # Null /\ dcode[q].pk = k
CourierRowHeldByOther(p, c) ==
    \E q \in Procs \ {p} : tx[q].courier = c

---------------------------------------------------------------------------
(* Command._assign_delivery: the courier query *)

CourierEligibleIgnoringLocks(p, c) ==
    /\ CourierActive[c]
    /\ PostalCode(req[p].customer) \in DOMAIN ZoneAssignments[c]
    /\ (courierNext[c] = Null \/ courierNext[c] <= odt[p])
CourierEligibleIgnoringAvailability(p, c) ==
    /\ CourierActive[c]
    /\ PostalCode(req[p].customer) \in DOMAIN ZoneAssignments[c]
    /\ ~CourierRowHeldByOther(p, c)
\* lines 296-298: select_for_update(skip_locked=True) and the two filters
CourierEligible(p, c) ==
    /\ CourierActive[c]
    /\ PostalCode(req[p].customer) \in DOMAIN ZoneAssignments[c]
    /\ (courierNext[c] = Null \/ courierNext[c] <= odt[p])
    /\ ~CourierRowHeldByOther(p, c)

\* line 299: order_by('zone_assignments__priority', 'next_available_at', 'id');
\* PostgreSQL sorts NULL after every value in ascending order
NextAvailableBefore(a, b) ==
    /\ courierNext[a] # Null
    /\ (courierNext[b] = Null \/ courierNext[a] < courierNext[b])
CourierBefore(a, b, postal) ==
    \/ ZoneAssignments[a][postal] < ZoneAssignments[b][postal]
    \/ /\ ZoneAssignments[a][postal] = ZoneAssignments[b][postal]
       /\ \/ NextAvailableBefore(a, b)
          \/ courierNext[a] = courierNext[b] /\ a < b

Candidates(p) == {c \in Couriers : CourierEligible(p, c)}
\* .first()
FirstCourier(p) ==
    CHOOSE c \in Candidates(p) :
        \A d \in Candidates(p) \ {c} : CourierBefore(c, d, PostalCode(req[p].customer))

---------------------------------------------------------------------------
(* Command.handle, one action per statement that reads or writes the store. *)

db == <<loyaltyTbl, usedCount, redemptions, courierNext, orders>>

FinishWithKeepingLocks(p, outcome, ids) ==
    /\ pc' = [pc EXCEPT ![p] = "done"]
    /\ result' = [result EXCEPT ![p] = outcome]
    /\ report' = [report EXCEPT ![p] = ids]
    /\ UNCHANGED <<tx, req, loyalty, dcode, odt>>

\* handle returns or raises: the placement's objects are dropped
FinishWith(p, outcome, ids) ==
    /\ pc' = [pc EXCEPT ![p] = "done"]
    /\ result' = [result EXCEPT ![p] = outcome]
    /\ report' = [report EXCEPT ![p] = ids]
    /\ tx' = [tx EXCEPT ![p] = EmptyTx]
    /\ req' = [req EXCEPT ![p] = NoRequest]
    /\ loyalty' = [loyalty EXCEPT ![p] = NoLoyalty]
    /\ dcode' = [dcode EXCEPT ![p] = NoCode]
    /\ odt' = [odt EXCEPT ![p] = Null]

Finish(p, outcome) == FinishWith(p, outcome, {})

\* a CommandError (or a database error) leaves handle: the atomic block, if
\* entered, rolls back, and the attempt ends with that error
Raise(p, error) == Finish(p, error)

\* a CommandError whose message lists identifiers (lines 162, 185, 205)
RaiseListing(p, error, ids) == FinishWith(p, error, ids)

LoadCustomerResolvingItemsFirst(p, r, limit) ==
    /\ pc[p] \in {"idle", "done"}
    /\ started < limit
    /\ started' = started + 1
    /\ IF \/ ParseFails(r.pizza)
          \/ ParseSpecs(r.pizza) = <<>>
          \/ ParseFails(r.drink)
          \/ ParseFails(r.dessert)
       THEN Raise(p, "InvalidRequest")
       ELSE IF r.customer \notin Customers
       THEN Raise(p, "CustomerNotFound")
       ELSE IF BuildOrderItems(ParseSpecs(r.pizza), ParseSpecs(r.drink),
                               ParseSpecs(r.dessert)).error # NoError
       THEN RaiseListing(p, "UnknownOrInactiveProduct",
                         BuildOrderItems(ParseSpecs(r.pizza), ParseSpecs(r.drink),
                                         ParseSpecs(r.dessert)).missing)
       ELSE /\ req' = [req EXCEPT ![p] = r]
            /\ loyalty' = [loyalty EXCEPT ![p] = LoadLoyalty(r.customer)]
            /\ pc' = [pc EXCEPT ![p] = "resolve"]
            /\ result' = [result EXCEPT ![p] = "running"]
            /\ report' = [report EXCEPT ![p] = {}]
            /\ UNCHANGED <<dcode, odt, tx>>
    /\ UNCHANGED <<now, db, catalog>>

\* lines 56-66: parse the options and load the customer with its loyalty row
LoadCustomer(p, r, limit) ==
    /\ pc[p] \in {"idle", "done"}
    /\ started < limit
    /\ started' = started + 1
    /\ IF \/ ParseFails(r.pizza)
          \/ ParseSpecs(r.pizza) = <<>>
          \/ ParseFails(r.drink)
          \/ ParseFails(r.dessert)
       THEN Raise(p, "InvalidRequest")
       ELSE IF r.customer \notin Customers
       THEN Raise(p, "CustomerNotFound")
       ELSE /\ req' = [req EXCEPT ![p] = r]
            /\ loyalty' = [loyalty EXCEPT ![p] = LoadLoyalty(r.customer)]
            /\ pc' = [pc EXCEPT ![p] = "resolve"]
            /\ result' = [result EXCEPT ![p] = "running"]
            /\ report' = [report EXCEPT ![p] = {}]
            /\ UNCHANGED <<dcode, odt, tx>>
    /\ UNCHANGED <<now, db, catalog>>

\* lines 68-71: _resolve_discount_code, then order_datetime = timezone.now()
ResolveCode(p) ==
    /\ pc[p] = "resolve"
    /\ \E res \in {ResolveDiscountCode(req[p].discount_code, DateOf(now), usedCount)} :
          IF res.error # NoError
          THEN Raise(p, res.error)
          ELSE /\ dcode' = [dcode EXCEPT ![p] =
                       IF res.pk = Null THEN NoCode
                       ELSE [pk |-> res.pk, used_count |-> usedCount[res.pk]]]
               /\ odt' = [odt EXCEPT ![p] = now]
               /\ pc' = [pc EXCEPT ![p] = "loyalty"]
               /\ UNCHANGED <<result, report, tx, req, loyalty>>
    /\ UNCHANGED <<now, db, started, catalog>>

EnsureLoyaltyAutocommit(p) ==
    /\ pc[p] = "loyalty"
    /\ IF loyalty[p].pk # Null
       THEN UNCHANGED <<loyalty, loyaltyTbl, result, report>>
       ELSE /\ LoyaltyPks(req[p].customer) = {}
            /\ loyaltyTbl' = Append(loyaltyTbl, [customer |-> req[p].customer, lifetime_pizzas |-> 0,
                                                 pizzas_since_last_reward |-> 0])
            /\ loyalty' = [loyalty EXCEPT ![p] = [NoLoyalty EXCEPT !.pk = Len(loyaltyTbl) + 1]]
            /\ UNCHANGED <<result, report>>
    /\ pc' = [pc EXCEPT ![p] = "validate"]
    /\ UNCHANGED <<now, usedCount, redemptions, courierNext, orders, req, dcode, odt, tx, started, catalog>>

EnsureLoyaltyWithoutUniqueness(p) ==
    /\ pc[p] = "loyalty"
    /\ IF loyalty[p].pk # Null
       THEN /\ pc' = [pc EXCEPT ![p] = "validate"]
            /\ UNCHANGED <<loyalty, tx, result, report, req, dcode, odt>>
       ELSE /\ tx' = [tx EXCEPT ![p].loyalty_insert = TRUE,
                                ![p].loyalty_row = <<[lifetime_pizzas |-> 0,
                                                      pizzas_since_last_reward |-> 0]>>]
            /\ loyalty' = [loyalty EXCEPT ![p] = [NoLoyalty EXCEPT !.pk = 0]]
            /\ pc' = [pc EXCEPT ![p] = "validate"]
            /\ UNCHANGED <<result, report, req, dcode, odt>>
    /\ UNCHANGED <<now, db, started, catalog>>

\* lines 73-76: enter the atomic block; create the loyalty row if the loaded
\* customer had none.  The INSERT waits for an uncommitted row of the same
\* customer and fails on a committed one (OneToOneField).
EnsureLoyalty(p) ==
    /\ pc[p] = "loyalty"
    /\ IF loyalty[p].pk # Null
       THEN /\ pc' = [pc EXCEPT ![p] = "validate"]
            /\ UNCHANGED <<loyalty, tx, result, report, req, dcode, odt>>
       ELSE /\ ~LoyaltyInsertHeldByOther(p, req[p].customer)
            /\ IF LoyaltyPks(req[p].customer) # {}
               THEN Raise(p, "IntegrityError")
               ELSE /\ tx' = [tx EXCEPT ![p].loyalty_insert = TRUE,
                                        ![p].loyalty_row = <<[lifetime_pizzas |-> 0,
                                                              pizzas_since_last_reward |-> 0]>>]
                    /\ loyalty' = [loyalty EXCEPT ![p] = [NoLoyalty EXCEPT !.pk = 0]]
                    /\ pc' = [pc EXCEPT ![p] = "validate"]
                    /\ UNCHANGED <<result, report, req, dcode, odt>>
    /\ UNCHANGED <<now, db, started, catalog>>

ValidateUsageEveryCode(p) ==
    /\ pc[p] = "validate"
    /\ IF /\ dcode[p].pk # Null
          /\ redemptions[<<req[p].customer, dcode[p].pk>>] > 0
       THEN Raise(p, "CodeAlreadyUsed")
       ELSE /\ pc' = [pc EXCEPT ![p] = "build"]
            /\ UNCHANGED <<result, report, tx, req, loyalty, dcode, odt>>
    /\ UNCHANGED <<now, db, started, catalog>>

\* line 78: _validate_discount_code_usage
ValidateUsage(p) ==
    /\ pc[p] = "validate"
    /\ IF /\ dcode[p].pk # Null
          /\ CodeRows[dcode[p].pk].is_one_time
          /\ redemptions[<<req[p].customer, dcode[p].pk>>] > 0
       THEN Raise(p, "CodeAlreadyUsed")
       ELSE /\ pc' = [pc EXCEPT ![p] = "build"]
            /\ UNCHANGED <<result, report, tx, req, loyalty, dcode, odt>>
    /\ UNCHANGED <<now, db, started, catalog>>

\* the row CustomerOrder.objects.create inserts (lines 96-109) for the options
\* r, order_datetime t and the resolved code
OrderRowOf(r, t, code_pk, order_data, priced) ==
    [customer |-> r.customer,
     order_datetime |-> t,
     delivery_type |-> r.delivery_type,
     subtotal_amount |-> priced.subtotal_amount,
     discount_amount |-> priced.discount_amount,
     total_due |-> priced.total_due,
     loyalty_discount_amount |-> priced.loyalty_discount_amount,
     birthday_discount_amount |-> priced.birthday_discount_amount,
     code_discount_amount |-> priced.code_discount_amount,
     applied_discount_code |-> code_pk,
     items |-> order_data.items,
     delivery_person |-> Null,
     driver_assigned_at |-> Null,
     discount_application |-> Null,
     \* not columns: the unrounded amounts the rounded ones came from, and
     \* the options the order was placed with
     raw_birthday |-> priced.raw_birthday,
     birthday_pizza_component |-> priced.birthday_pizza_component,
     since_before |-> priced.since_before,
     raw_loyalty |-> priced.raw_loyalty,
     raw_code |-> priced.raw_code,
     taxable_amount |-> priced.taxable_amount,
     request |-> r]

OrderRow(p, order_data, priced) == OrderRowOf(req[p], odt[p], dcode[p].pk, order_data, priced)

\* lines 111-122: the INSERTs of the line items.  models.py declares a unique
\* constraint on an order's (product kind, product id) for a table whose columns
\* are not the ones these lines write; whether the table these lines write has
\* it is not in the sources, so an order that names a product twice either gets
\* both lines or is refused by the database.
RepeatedProductOutcomes(items) ==
    IF \E i, j \in DOMAIN items :
          i < j /\ items[i].type = items[j].type /\ items[i].id = items[j].id
    THEN BOOLEAN
    ELSE {FALSE}

\* lines 79-122: resolve the items, price the order, insert the order header
\* and its line items
BuildOrder(p) ==
    /\ pc[p] = "build"
    /\ \E order_data \in {BuildOrderItems(ParseSpecs(req[p].pizza), ParseSpecs(req[p].drink),
                                            ParseSpecs(req[p].dessert))} :
          IF order_data.error # NoError
          THEN RaiseListing(p, order_data.error, order_data.missing)
          ELSE \E priced \in {PriceOrder(req[p].customer, odt[p], loyalty[p], dcode[p].pk, order_data)} :
               \E refused \in RepeatedProductOutcomes(order_data.items) :
                  IF refused
                  THEN Raise(p, "IntegrityError")
                  ELSE /\ loyalty' = [loyalty EXCEPT ![p] = priced.loyalty]
                       /\ tx' = [tx EXCEPT ![p].order = <<OrderRow(p, order_data, priced)>>]
                       /\ pc' = [pc EXCEPT ![p] = "apply"]
                       /\ UNCHANGED <<result, report, req, dcode, odt>>
    /\ UNCHANGED <<now, db, started, catalog>>

RedeemCodeAlwaysInserting(p, new_used_count) ==
    /\ ~CodeRowHeldByOther(p, dcode[p].pk)
    /\ dcode' = [dcode EXCEPT ![p].used_count = new_used_count]
    /\ tx' = [tx EXCEPT ![p].code_used = new_used_count,
                        ![p].redemption = TRUE,
                        ![p].order = <<[tx[p].order[1] EXCEPT
                                          !.discount_application = tx[p].order[1].code_discount_amount]>>]

\* lines 283-286 with the value written to used_count: UPDATE the code row
\* (waiting for another transaction's uncommitted UPDATE of it),
\* get_or_create the redemption, insert the discount application
RedeemCode(p, new_used_count) ==
    /\ ~CodeRowHeldByOther(p, dcode[p].pk)
    /\ dcode' = [dcode EXCEPT ![p].used_count = new_used_count]
    /\ tx' = [tx EXCEPT ![p].code_used = new_used_count,
                        ![p].redemption = (redemptions[<<req[p].customer, dcode[p].pk>>] = 0),
                        ![p].order = <<[tx[p].order[1] EXCEPT
                                          !.discount_application = tx[p].order[1].code_discount_amount]>>]

CodeAppliesWheneverSupplied(p) == dcode[p].pk # Null

CodeApplies(p) == dcode[p].pk # Null /\ tx[p].order[1].code_discount_amount > 0

ApplyDiscountCodeUncapped(p) ==
    /\ pc[p] = "apply"
    /\ IF CodeApplies(p)
       THEN ~CodeRowHeldByOther(p, dcode[p].pk) /\ RedeemCode(p, usedCount[dcode[p].pk] + 1)
       ELSE UNCHANGED <<dcode, tx>>
    /\ pc' = [pc EXCEPT ![p] = "updloy"]
    /\ UNCHANGED <<now, db, req, loyalty, odt, result, report, started, catalog>>

\* lines 124-125 and 280-286: _apply_discount_code
ApplyDiscountCode(p) ==
    /\ pc[p] = "apply"
    /\ IF CodeApplies(p)
       THEN RedeemCode(p, Min(CodeRows[dcode[p].pk].usage_limit, dcode[p].used_count + 1))
       ELSE UNCHANGED <<dcode, tx>>
    /\ pc' = [pc EXCEPT ![p] = "updloy"]
    /\ UNCHANGED <<now, db, req, loyalty, odt, result, report, started, catalog>>

\* lines 127 and 288-289: _update_loyalty, an UPDATE of the loyalty row by
\* primary key with the object's counters (waiting for another transaction's
\* uncommitted UPDATE of that row)
UpdateLoyalty(p) ==
    /\ pc[p] = "updloy"
    /\ ~LoyaltyRowHeldByOther(p, loyalty[p].pk)
    /\ tx' = [tx EXCEPT ![p].loyalty_row =
                  <<[lifetime_pizzas |-> loyalty[p].lifetime_pizzas,
                     pizzas_since_last_reward |-> loyalty[p].pizzas_since_last_reward]>>]
    /\ pc' = [pc EXCEPT ![p] = "assign"]
    /\ UNCHANGED <<now, db, req, loyalty, dcode, odt, result, report, started, catalog>>

AssignDeliveryStampedNow(p) ==
    /\ pc[p] = "assign"
    /\ IF req[p].delivery_type # "delivery"
       THEN /\ pc' = [pc EXCEPT ![p] = "commit"]
            /\ UNCHANGED <<tx, result, report, req, loyalty, dcode, odt>>
       ELSE IF Candidates(p) = {}
       THEN Raise(p, "NoCourierAvailable")
       ELSE /\ UNCHANGED <<req, loyalty, dcode, odt>>
            /\ tx' = [tx EXCEPT ![p].courier = FirstCourier(p),
                                ![p].order = <<[tx[p].order[1] EXCEPT
                                                  !.delivery_person = FirstCourier(p),
                                                  !.driver_assigned_at = now]>>]
            /\ pc' = [pc EXCEPT ![p] = "commit"]
            /\ UNCHANGED <<result, report>>
    /\ UNCHANGED <<now, db, started, catalog>>

AssignDeliveryAlways(p) ==
    /\ pc[p] = "assign"
    /\ IF Candidates(p) = {}
       THEN Raise(p, "NoCourierAvailable")
       ELSE /\ UNCHANGED <<req, loyalty, dcode, odt>>
            /\ tx' = [tx EXCEPT ![p].courier = FirstCourier(p),
                                ![p].order = <<[tx[p].order[1] EXCEPT
                                                  !.delivery_person = FirstCourier(p),
                                                  !.driver_assigned_at = odt[p]]>>]
            /\ pc' = [pc EXCEPT ![p] = "commit"]
            /\ UNCHANGED <<result, report>>
    /\ UNCHANGED <<now, db, started, catalog>>

AssignDeliveryBestEffort(p) ==
    /\ pc[p] = "assign"
    /\ IF req[p].delivery_type # "delivery" \/ Candidates(p) = {}
       THEN /\ pc' = [pc EXCEPT ![p] = "commit"]
            /\ UNCHANGED <<tx, result, report, req, loyalty, dcode, odt>>
       ELSE /\ UNCHANGED <<req, loyalty, dcode, odt>>
            /\ tx' = [tx EXCEPT ![p].courier = FirstCourier(p),
                                ![p].order = <<[tx[p].order[1] EXCEPT
                                                  !.delivery_person = FirstCourier(p),
                                                  !.driver_assigned_at = odt[p]]>>]
            /\ pc' = [pc EXCEPT ![p] = "commit"]
            /\ UNCHANGED <<result, report>>
    /\ UNCHANGED <<now, db, started, catalog>>

AssignDeliveryWaiting(p) ==
    /\ pc[p] = "assign"
    /\ IF req[p].delivery_type # "delivery"
       THEN /\ pc' = [pc EXCEPT ![p] = "commit"]
            /\ UNCHANGED <<tx, result, report, req, loyalty, dcode, odt>>
       ELSE /\ \A c \in Couriers : CourierEligibleIgnoringLocks(p, c) => ~CourierRowHeldByOther(p, c)
            /\ IF Candidates(p) = {}
               THEN Raise(p, "NoCourierAvailable")
               ELSE /\ UNCHANGED <<req, loyalty, dcode, odt>>
                    /\ tx' = [tx EXCEPT ![p].courier = FirstCourier(p),
                                        ![p].order = <<[tx[p].order[1] EXCEPT
                                                          !.delivery_person = FirstCourier(p),
                                                          !.driver_assigned_at = odt[p]]>>]
                    /\ pc' = [pc EXCEPT ![p] = "commit"]
                    /\ UNCHANGED <<result, report>>
    /\ UNCHANGED <<now, db, started, catalog>>

\* lines 128 and 291-309: _assign_delivery
AssignDelivery(p) ==
    /\ pc[p] = "assign"
    /\ IF req[p].delivery_type # "delivery"
       THEN /\ pc' = [pc EXCEPT ![p] = "commit"]
            /\ UNCHANGED <<tx, result, report, req, loyalty, dcode, odt>>
       ELSE IF Candidates(p) = {}
       THEN Raise(p, "NoCourierAvailable")
       ELSE /\ UNCHANGED <<req, loyalty, dcode, odt>>
            /\ tx' = [tx EXCEPT ![p].courier = FirstCourier(p),
                                ![p].order = <<[tx[p].order[1] EXCEPT
                                                  !.delivery_person = FirstCourier(p),
                                                  !.driver_assigned_at = odt[p]]>>]
            /\ pc' = [pc EXCEPT ![p] = "commit"]
            /\ UNCHANGED <<result, report>>
    /\ UNCHANGED <<now, db, started, catalog>>

CommitAtCurrentPrices(p) ==
    /\ pc[p] = "commit"
    /\ loyaltyTbl' =
          IF tx[p].loyalty_insert
          THEN Append(loyaltyTbl,
                      [customer |-> req[p].customer,
                       lifetime_pizzas |-> tx[p].loyalty_row[1].lifetime_pizzas,
                       pizzas_since_last_reward |-> tx[p].loyalty_row[1].pizzas_since_last_reward])
          ELSE IF tx[p].loyalty_row # <<>>
          THEN [loyaltyTbl EXCEPT
                  ![loyalty[p].pk].lifetime_pizzas = tx[p].loyalty_row[1].lifetime_pizzas,
                  ![loyalty[p].pk].pizzas_since_last_reward = tx[p].loyalty_row[1].pizzas_since_last_reward]
          ELSE loyaltyTbl
    /\ usedCount' =
          IF tx[p].code_used # Null
          THEN [usedCount EXCEPT ![dcode[p].pk] = tx[p].code_used]
          ELSE usedCount
    /\ redemptions' =
          IF tx[p].redemption
          THEN [redemptions EXCEPT ![<<req[p].customer, dcode[p].pk>>] = @ + 1]
          ELSE redemptions
    /\ courierNext' =
          IF tx[p].courier # Null
          THEN [courierNext EXCEPT ![tx[p].courier] = odt[p] + CooldownMinutes]
          ELSE courierNext
    /\ orders' = Append(orders,
                        [tx[p].order[1] EXCEPT !.items =
                            [k \in DOMAIN tx[p].order[1].items |->
                                [tx[p].order[1].items[k] EXCEPT !.price =
                                    Dec(catalog[tx[p].order[1].items[k].type]
                                               [tx[p].order[1].items[k].id])]]])
    /\ Finish(p, "committed")
    /\ UNCHANGED <<now, started, catalog>>

\* the atomic block exits without an exception: every pending write commits
Commit(p) ==
    /\ pc[p] = "commit"
    /\ loyaltyTbl' =
          IF tx[p].loyalty_insert
          THEN Append(loyaltyTbl,
                      [customer |-> req[p].customer,
                       lifetime_pizzas |-> tx[p].loyalty_row[1].lifetime_pizzas,
                       pizzas_since_last_reward |-> tx[p].loyalty_row[1].pizzas_since_last_reward])
          ELSE IF tx[p].loyalty_row # <<>>
          THEN [loyaltyTbl EXCEPT
                  ![loyalty[p].pk].lifetime_pizzas = tx[p].loyalty_row[1].lifetime_pizzas,
                  ![loyalty[p].pk].pizzas_since_last_reward = tx[p].loyalty_row[1].pizzas_since_last_reward]
          ELSE loyaltyTbl
    /\ usedCount' =
          IF tx[p].code_used # Null
          THEN [usedCount EXCEPT ![dcode[p].pk] = tx[p].code_used]
          ELSE usedCount
    /\ redemptions' =
          IF tx[p].redemption
          THEN [redemptions EXCEPT ![<<req[p].customer, dcode[p].pk>>] = @ + 1]
          ELSE redemptions
    /\ courierNext' =
          IF tx[p].courier # Null
          THEN [courierNext EXCEPT ![tx[p].courier] = odt[p] + CooldownMinutes]
          ELSE courierNext
    /\ orders' = Append(orders, tx[p].order[1])
    /\ Finish(p, "committed")
    /\ UNCHANGED <<now, started, catalog>>

\* time passes
Tick ==
    /\ now < StartMinute + MaxTicks * TickMinutes
    /\ now' = now + TickMinutes
    /\ UNCHANGED <<db, pc, req, loyalty, dcode, odt, tx, result, report, started, catalog>>

\* the catalog is edited: an item's sale price changes
ChangePrice(kind, id, price) ==
    /\ catalog[kind][id] # price
    /\ catalog' = [catalog EXCEPT ![kind][id] = price]
    /\ UNCHANGED <<now, db, pc, req, loyalty, dcode, odt, tx, result, report, started>>

---------------------------------------------------------------------------
(* Requests and specifications. *)

Spec1(id, qty) == [form |-> "id:qty", ident |-> id, qty |-> qty]
SpecId(id) == [form |-> "id", ident |-> id, qty |-> 0]
SpecMalformed == [form |-> "malformed", ident |-> 0, qty |-> 0]

\* request option values for --discount-code: spellings of the stored codes
StrOnceLower == <<111, 110, 99, 101>>
StrLastPadded == <<32, 76, 97, 115, 116, 32>>
StrNOPE == <<78, 79, 80, 69>>
StrBlank == <<32>>

\* placements that can commit: two customers, a one-time code and a code with
\* one use left, delivery and pickup
GoodRequests ==
    [customer : Customers,
     pizza : {<<Spec1(2, 2)>>},
     drink : {<<>>},
     dessert : {<<>>},
     discount_code : {StrOnceLower, StrLastPadded},
     delivery_type : {"delivery"}]
    \cup
    [customer : Customers,
     pizza : {<<Spec1(2, 2)>>},
     drink : {<<>>},
     dessert : {<<>>},
     discount_code : {<<>>},
     delivery_type : {"pickup"}]
    \cup
    [customer : {1},
     pizza : {<<SpecId(1)>>},
     drink : {<<>>},
     dessert : {<<>>},
     discount_code : {StrONCE},
     delivery_type : {"pickup"}]

\* one placement for each way of failing before the courier assignment
BadRequests ==
    {[NoRequest EXCEPT !.customer = 1],
     [NoRequest EXCEPT !.customer = 1, !.pizza = <<Spec1(1, 0)>>],
     [NoRequest EXCEPT !.customer = 1, !.pizza = <<SpecId(1)>>, !.drink = <<SpecMalformed>>],
     [NoRequest EXCEPT !.customer = 9, !.pizza = <<SpecId(1)>>],
     [NoRequest EXCEPT !.customer = 9, !.drink = <<SpecId(1)>>, !.discount_code = StrONCE],
     [NoRequest EXCEPT !.customer = 1, !.pizza = <<SpecId(1)>>, !.dessert = <<Spec1(1, 0)>>,
                       !.discount_code = StrNOPE],
     [NoRequest EXCEPT !.customer = 1, !.pizza = <<SpecId(1)>>, !.discount_code = StrNOPE],
     [NoRequest EXCEPT !.customer = 1, !.pizza = <<SpecId(1)>>, !.discount_code = StrBlank],
     [NoRequest EXCEPT !.customer = 1, !.pizza = <<SpecId(1)>>, !.discount_code = StrOLD],
     [NoRequest EXCEPT !.customer = 1, !.pizza = <<SpecId(1)>>, !.discount_code = StrOFF],
     [NoRequest EXCEPT !.customer = 1, !.pizza = <<SpecId(1)>>, !.discount_code = StrNEW],
     [NoRequest EXCEPT !.customer = 2, !.pizza = <<SpecId(7), SpecId(1), SpecId(8)>>,
                       !.discount_code = StrONCE],
     [NoRequest EXCEPT !.customer = 1, !.pizza = <<SpecId(1)>>, !.drink = <<SpecId(2)>>],
     [NoRequest EXCEPT !.customer = 1, !.pizza = <<SpecId(1)>>, !.dessert = <<SpecId(5)>>],
     [NoRequest EXCEPT !.customer = 1, !.pizza = <<SpecId(7)>>, !.discount_code = StrNOPE],
     [NoRequest EXCEPT !.customer = 1, !.pizza = <<SpecId(8)>>, !.discount_code = StrONCE],
     [NoRequest EXCEPT !.customer = 1, !.pizza = <<SpecId(7)>>, !.delivery_type = "delivery"],
     [NoRequest EXCEPT !.customer = 1, !.pizza = <<SpecId(1)>>,
                       !.drink = <<SpecId(9), SpecId(1), SpecId(2)>>, !.dessert = <<SpecId(5)>>],
     [NoRequest EXCEPT !.customer = 1, !.pizza = <<SpecId(1)>>, !.drink = <<SpecId(1)>>,
                       !.dessert = <<SpecId(6), SpecId(1), SpecId(5)>>]}

Requests == GoodRequests \cup BadRequests

InitLocals ==
    /\ pc = [p \in Procs |-> "idle"]
    /\ req = [p \in Procs |-> NoRequest]
    /\ loyalty = [p \in Procs |-> NoLoyalty]
    /\ dcode = [p \in Procs |-> NoCode]
    /\ odt = [p \in Procs |-> Null]
    /\ tx = [p \in Procs |-> EmptyTx]
    /\ result = [p \in Procs |-> "none"]
    /\ report = [p \in Procs |-> {}]
    /\ started = 0
    /\ catalog = InitCatalog

InitStore(since) ==
    /\ now = StartMinute
    /\ loyaltyTbl = [i \in DOMAIN InitLoyaltyRows |->
                        [InitLoyaltyRows[i] EXCEPT !.pizzas_since_last_reward = since]]
    /\ usedCount = InitUsedCount
    /\ redemptions = [pair \in Customers \X CodeIds |-> 0]
    /\ courierNext = InitCourierNext
    /\ orders = <<>>

Init == InitStore(InitLoyaltyRows[1].pizzas_since_last_reward) /\ InitLocals

Step(p) ==
    \/ ResolveCode(p)
    \/ EnsureLoyalty(p)
    \/ ValidateUsage(p)
    \/ BuildOrder(p)
    \/ ApplyDiscountCode(p)
    \/ UpdateLoyalty(p)
    \/ AssignDelivery(p)
    \/ Commit(p)

Next ==
    \/ \E p \in Procs : \E r \in Requests : LoadCustomer(p, r, MaxPlacements)
    \/ \E p \in Procs : Step(p)
    \/ Tick

Spec == Init /\ [][Next]_vars

\* One placement at a time, over a wider range of items, quantities, codes
\* and loyalty counters.
PricingRequests ==
    [customer : Customers,
     pizza : {<<Spec1(1, 1)>>, <<Spec1(2, 2)>>, <<SpecId(3)>>, <<Spec1(1, 2), SpecId(3)>>},
     drink : {<<>>, <<SpecId(1)>>, <<Spec1(1, 2), SpecId(3)>>},
     dessert : {<<>>},
     discount_code : {<<>>, StrONCE, StrLAST, StrBIG},
     delivery_type : {"pickup"}]
    \cup
    [customer : {1},
     pizza : {<<SpecId(1)>>},
     drink : {<<>>},
     dessert : {<<SpecId(1)>>},
     discount_code : {<<>>, StrBIG},
     delivery_type : {"delivery"}]
    \cup
    [customer : {1},
     pizza : {<<Spec1(3, 11)>>, <<SpecId(4)>>, <<SpecId(3), Spec1(3, 2)>>},
     drink : {<<>>},
     dessert : {<<>>},
     discount_code : {<<>>},
     delivery_type : {"pickup"}]

\* placements of one customer while the prices of pizza 2 and drink 1 move
CatalogRequests ==
    [customer : {1},
     pizza : {<<Spec1(2, 2)>>},
     drink : {<<>>, <<SpecId(1)>>},
     dessert : {<<>>},
     discount_code : {<<>>, StrBIG},
     delivery_type : {"pickup"}]

PriceOptions ==
    {<<"pizza", 2, 1000>>, <<"pizza", 2, 1200>>, <<"drink", 1, 250>>, <<"drink", 1, 300>>}

CatalogNext ==
    \/ \E p \in Procs : \E r \in CatalogRequests : LoadCustomer(p, r, MaxCatalogPlacements)
    \/ \E p \in Procs : Step(p)
    \/ \E change \in PriceOptions : ChangePrice(change[1], change[2], change[3])

CatalogSpec == Init /\ [][CatalogNext]_vars

\* placements of one customer that all redeem the code BIG (3 uses, none taken)
RedeemRequests ==
    [customer : {1},
     pizza : {<<SpecId(1)>>},
     drink : {<<>>},
     dessert : {<<>>},
     discount_code : {StrBIG},
     delivery_type : {"pickup"}]

RedeemNext ==
    \/ \E p \in Procs : \E r \in RedeemRequests : LoadCustomer(p, r, MaxRedeemPlacements)
    \/ \E p \in Procs : Step(p)

RedeemSpec == Init /\ [][RedeemNext]_vars

PricingInit == (\E since \in {0, 8, 9} : InitStore(since)) /\ InitLocals

PricingNext ==
    \/ \E r \in PricingRequests : LoadCustomer(1, r, MaxPricedPlacements)
    \/ Step(1)
    \/ Tick

PricingSpec == PricingInit /\ [][PricingNext]_vars

\* Overlapping placements that share customers (one with a loyalty row, one
\* without), codes and couriers, one of them failing inside the transaction,
\* each running process taking its next step whenever it stays able to.  The clock stands still: what a
\* placement waits for is a row lock, never a time.
LiveRequests ==
    {r \in GoodRequests : r.delivery_type = "delivery"}
    \cup {[NoRequest EXCEPT !.customer = 2, !.pizza = <<SpecId(7)>>]}

LiveNext ==
    \/ \E p \in Procs : \E r \in LiveRequests : LoadCustomer(p, r, MaxLivePlacements)
    \/ \E p \in Procs : Step(p)

LiveSpec == Init /\ [][LiveNext]_vars /\ \A p \in Procs : WF_vars(Step(p))

---------------------------------------------------------------------------
(* Properties. *)

OrderIds == DOMAIN orders
\* committed orders that received a positive discount from code k
RedeemedOrders(k) ==
    {i \in OrderIds : orders[i].applied_discount_code = k /\ orders[i].code_discount_amount > 0}
PizzaUnits(order) ==
    SumSeq([i \in DOMAIN order.items |->
              IF order.items[i].type = "pizza" THEN order.items[i].quantity ELSE 0])

\* C1: every committed order's total due is its (rounded) subtotal minus its
\* discount total, to the cent.
C1_TotalDueIsSubtotalMinusDiscount ==
    \A i \in OrderIds :
        orders[i].total_due = orders[i].subtotal_amount - orders[i].discount_amount

\* an order with all three discounts, the code discount with a fraction of a cent
C1_Witness ==
    \E i \in OrderIds :
        /\ orders[i].birthday_discount_amount > 0
        /\ orders[i].loyalty_discount_amount > 0
        /\ orders[i].code_discount_amount > 0
        /\ orders[i].raw_code % Cent # 0

\* C2: every committed order's discount total is the sum of its three
\* separately rounded amounts (birthday, loyalty, code).
C2_DiscountTotalIsSumOfAmounts ==
    \A i \in OrderIds :
        orders[i].discount_amount =
            orders[i].birthday_discount_amount + orders[i].loyalty_discount_amount
            + orders[i].code_discount_amount

\* C3: on every committed order the three amounts are >= 0, the code discount
\* is no larger than the taxable amount it was computed against, and the total
\* due is not negative.
C3_DiscountsWithinBase ==
    \A i \in OrderIds :
        /\ orders[i].birthday_discount_amount >= 0
        /\ orders[i].loyalty_discount_amount >= 0
        /\ orders[i].code_discount_amount >= 0
        /\ orders[i].raw_code <= Max(orders[i].taxable_amount, 0)
        /\ orders[i].total_due >= 0

\* C4: a customer has at most one committed order with a positive discount
\* from a given one-time code.
C4_OneTimeCodeRedeemedOnce ==
    \A c \in Customers : \A k \in CodeIds :
        CodeRows[k].is_one_time =>
            Cardinality({i \in RedeemedOrders(k) : orders[i].customer = c}) <= 1

\* C5: the committed orders discounted by a code, with the uses it had at the
\* start, never outnumber the code's usage limit.
C5_RedemptionsWithinUsageLimit ==
    \A k \in CodeIds :
        InitUsedCount[k] + Cardinality(RedeemedOrders(k)) <= CodeRows[k].usage_limit

\* C6: every code's used_count is at most its usage_limit.
C6_UsedCountWithinLimit ==
    \A k \in CodeIds : usedCount[k] <= CodeRows[k].usage_limit

\* placements have redeemed a code past its last slot, and used_count sits at the limit
C6_Witness ==
    \E k \in CodeIds :
        /\ InitUsedCount[k] + Cardinality(RedeemedOrders(k)) > CodeRows[k].usage_limit
        /\ usedCount[k] = CodeRows[k].usage_limit

\* C7: no courier has two committed orders less than 30 minutes apart, and no
\* two placements in flight hold the same courier.
C7_NoDoubleBooking ==
    /\ \A i \in OrderIds : \A j \in OrderIds :
          (i # j /\ orders[i].delivery_person # Null
                 /\ orders[i].delivery_person = orders[j].delivery_person)
              => Abs(orders[i].order_datetime - orders[j].order_datetime) >= CooldownMinutes
    /\ \A p \in Procs : \A q \in Procs \ {p} :
          tx[p].courier # Null => tx[p].courier # tx[q].courier

\* a courier delivers a second committed order
C7_Witness ==
    \E i \in OrderIds : \E j \in OrderIds \ {i} :
        orders[i].delivery_person # Null /\ orders[i].delivery_person = orders[j].delivery_person

\* C8: the store changes only in the step in which a placement commits, and a
\* placement that fails drops every write it had pending: a failed attempt
\* leaves no order, ledger, code, redemption or courier change behind.
C8_FailureLeavesStoreUnchanged ==
    [][/\ (db' # db => \E p \in Procs : pc[p] = "commit" /\ result'[p] = "committed")
       /\ \A p \in Procs :
             (pc[p] # "done" /\ pc'[p] = "done" /\ result'[p] # "committed")
                 => (db' = db /\ tx'[p] = EmptyTx)]_vars

\* a delivery placement failed at the last step, after its account, order and
\* ledger writes, and the store is as it was at the start
C8_Witness ==
    \E p \in Procs :
        /\ result[p] = "NoCourierAvailable"
        /\ orders = <<>>
        /\ Len(loyaltyTbl) = 1
        /\ usedCount = InitUsedCount
        /\ courierNext = InitCourierNext

\* C9: pizzas_since_last_reward of every loyalty row is in 0..9.
C9_SinceLastRewardInRange ==
    \A i \in DOMAIN loyaltyTbl : loyaltyTbl[i].pizzas_since_last_reward \in 0..9

\* an order took the customer's count across a block of 10 pizzas
C9_Witness ==
    \E i \in OrderIds : \E j \in LoyaltyPks(orders[i].customer) :
        /\ orders[i].loyalty_discount_amount > 0
        /\ loyaltyTbl[j].pizzas_since_last_reward < PizzaUnits(orders[i])

\* lifetime_pizzas of customer c's loyalty row (0 without a row)
LifetimePizzas(c) ==
    IF LoyaltyPks(c) = {} THEN 0
    ELSE loyaltyTbl[CHOOSE i \in LoyaltyPks(c) : TRUE].lifetime_pizzas
InitLifetimePizzas(c) ==
    SumSeq([i \in DOMAIN InitLoyaltyRows |->
              IF InitLoyaltyRows[i].customer = c THEN InitLoyaltyRows[i].lifetime_pizzas ELSE 0])

\* C10: each customer's lifetime_pizzas is its initial value plus the pizza
\* units of that customer's committed orders.
C10_LifetimeCountsEveryOrder ==
    \A c \in Customers :
        LifetimePizzas(c) =
            InitLifetimePizzas(c)
            + SumSeq([i \in OrderIds |-> IF orders[i].customer = c THEN PizzaUnits(orders[i]) ELSE 0])

---------------------------------------------------------------------------
(* Command.handle run alone: the store one placement leaves when no other  *)
(* placement overlaps it.                                                  *)

\* the committed store as one record
Store ==
    [loyaltyTbl |-> loyaltyTbl, usedCount |-> usedCount, redemptions |-> redemptions,
     courierNext |-> courierNext, orders |-> orders]
\* the store at Init
InitialStore ==
    [loyaltyTbl |-> InitLoyaltyRows, usedCount |-> InitUsedCount,
     redemptions |-> [pair \in Customers \X CodeIds |-> 0],
     courierNext |-> InitCourierNext, orders |-> <<>>]

\* select_related('loyalty') against the loyalty rows tbl
LoadLoyaltyFrom(tbl, c) ==
    IF \A i \in DOMAIN tbl : tbl[i].customer # c
    THEN NoLoyalty
    ELSE LET i == CHOOSE i \in DOMAIN tbl : tbl[i].customer = c
         IN  [pk |-> i, lifetime_pizzas |-> tbl[i].lifetime_pizzas,
              pizzas_since_last_reward |-> tbl[i].pizzas_since_last_reward]

\* the courier query of _assign_delivery against availabilities next, with no
\* row locked
CandidatesIn(next, postal, t) ==
    {c \in Couriers : /\ CourierActive[c]
                      /\ postal \in DOMAIN ZoneAssignments[c]
                      /\ (next[c] = Null \/ next[c] <= t)}
CourierBeforeIn(next, a, b, postal) ==
    \/ ZoneAssignments[a][postal] < ZoneAssignments[b][postal]
    \/ /\ ZoneAssignments[a][postal] = ZoneAssignments[b][postal]
       /\ \/ next[a] # Null /\ (next[b] = Null \/ next[a] < next[b])
          \/ next[a] = next[b] /\ a < b
FirstCourierIn(next, postal, t) ==
    CHOOSE c \in CandidatesIn(next, postal, t) :
        \A d \in CandidatesIn(next, postal, t) \ {c} : CourierBeforeIn(next, c, d, postal)

\* handle(r) executed at time t against store S with nothing else running:
\* the store it leaves (S itself when it raises)
SerialPlace(S, r, t) ==
    IF \/ ParseFails(r.pizza)
       \/ ParseSpecs(r.pizza) = <<>>
       \/ ParseFails(r.drink)
       \/ ParseFails(r.dessert)
       \/ r.customer \notin Customers
    THEN S
    ELSE
    LET loaded == LoadLoyaltyFrom(S.loyaltyTbl, r.customer)
        res == ResolveDiscountCode(r.discount_code, DateOf(t), S.usedCount)
        order_data == BuildOrderItems(ParseSpecs(r.pizza), ParseSpecs(r.drink), ParseSpecs(r.dessert))
        postal == PostalCode(r.customer)
    IN
    IF res.error # NoError
    THEN S
    ELSE IF /\ res.pk # Null
            /\ CodeRows[res.pk].is_one_time
            /\ S.redemptions[<<r.customer, res.pk>>] > 0
    THEN S
    ELSE IF order_data.error # NoError
    THEN S
    ELSE IF r.delivery_type = "delivery" /\ CandidatesIn(S.courierNext, postal, t) = {}
    THEN S
    ELSE
    LET tbl == IF loaded.pk # Null THEN S.loyaltyTbl
               ELSE Append(S.loyaltyTbl, [customer |-> r.customer, lifetime_pizzas |-> 0,
                                          pizzas_since_last_reward |-> 0])
        loy == IF loaded.pk # Null THEN loaded ELSE [NoLoyalty EXCEPT !.pk = Len(tbl)]
        priced == PriceOrder(r.customer, t, loy, res.pk, order_data)
        applies == res.pk # Null /\ priced.code_discount_amount > 0
        courier == IF r.delivery_type = "delivery"
                   THEN FirstCourierIn(S.courierNext, postal, t) ELSE Null
        row == [OrderRowOf(r, t, res.pk, order_data, priced) EXCEPT
                  !.discount_application = IF applies THEN priced.code_discount_amount ELSE Null,
                  !.delivery_person = courier,
                  !.driver_assigned_at = IF courier # Null THEN t ELSE Null]
    IN  [loyaltyTbl |-> [tbl EXCEPT ![loy.pk].lifetime_pizzas = priced.loyalty.lifetime_pizzas,
                                    ![loy.pk].pizzas_since_last_reward =
                                        priced.loyalty.pizzas_since_last_reward],
         usedCount |-> IF applies
                       THEN [S.usedCount EXCEPT ![res.pk] = Min(CodeRows[res.pk].usage_limit, @ + 1)]
                       ELSE S.usedCount,
         redemptions |-> IF applies /\ S.redemptions[<<r.customer, res.pk>>] = 0
                         THEN [S.redemptions EXCEPT ![<<r.customer, res.pk>>] = 1]
                         ELSE S.redemptions,
         courierNext |-> IF courier # Null
                         THEN [S.courierNext EXCEPT ![courier] = t + CooldownMinutes]
                         ELSE S.courierNext,
         orders |-> Append(S.orders, row)]

\* the orders of `done`, placed one after another in the order f, each with
\* its own options and at its own order_datetime, starting from store S
Orderings(n) == {f \in [1..n -> 1..n] : \A i \in 1..n : \A j \in 1..n : i # j => f[i] # f[j]}
RECURSIVE SerialRun(_, _, _, _)
SerialRun(S, done, f, i) ==
    IF i > Len(f) THEN S
    ELSE SerialRun(SerialPlace(S, done[f[i]].request, done[f[i]].order_datetime), done, f, i + 1)

\* store S holds the same rows as the committed store, its orders in the order f
SameStore(S, f) ==
    /\ {S.loyaltyTbl[i] : i \in DOMAIN S.loyaltyTbl} = {loyaltyTbl[i] : i \in DOMAIN loyaltyTbl}
    /\ S.usedCount = usedCount
    /\ S.redemptions = redemptions
    /\ S.courierNext = courierNext
    /\ Len(S.orders) = Len(orders)
    /\ \A i \in DOMAIN S.orders : S.orders[i] = orders[f[i]]

\* C11: the committed store is the store some one-after-another execution of
\* the committed placements leaves: same orders, loyalty rows, used counts,
\* redemptions and courier availabilities.
C11_Serializable ==
    \E f \in Orderings(Len(orders)) : SameStore(SerialRun(InitialStore, orders, f, 1), f)


\* items of a committed order of one type, and whether m is the least unit
\* price among them
ItemsOfType(order, type) == {i \in DOMAIN order.items : order.items[i].type = type}
IsMinUnitPrice(order, type, m) ==
    /\ \E i \in ItemsOfType(order, type) : order.items[i].price = m
    /\ \A i \in ItemsOfType(order, type) : m <= order.items[i].price
OnBirthday(order) == Birthdate(order.customer) = MonthDay(DateOf(order.order_datetime))

\* C12: an order's birthday discount is nonzero only on the customer's
\* birthday (month and day of the order timestamp); on the birthday it is the
\* least pizza unit price plus the least drink unit price (0 without a drink),
\* each counted once whatever the quantities, and its pizza component is the
\* least pizza unit price.
C12_BirthdayDiscount ==
    \A i \in OrderIds :
        LET o == orders[i]
        IN  /\ ~OnBirthday(o) => (o.raw_birthday = 0 /\ o.birthday_pizza_component = 0)
            /\ OnBirthday(o) =>
                  /\ IsMinUnitPrice(o, "pizza", o.birthday_pizza_component)
                  /\ IF ItemsOfType(o, "drink") = {}
                     THEN o.raw_birthday = o.birthday_pizza_component
                     ELSE IsMinUnitPrice(o, "drink", o.raw_birthday - o.birthday_pizza_component)
            /\ o.birthday_discount_amount = o.raw_birthday

\* a birthday order with pizza lines and drink lines at different unit prices,
\* the dearer ones ordered twice
C12_Witness ==
    \E i \in OrderIds :
        /\ OnBirthday(orders[i])
        /\ orders[i].raw_birthday > orders[i].birthday_pizza_component
        /\ \E a \in ItemsOfType(orders[i], "pizza") :
              orders[i].items[a].price > orders[i].birthday_pizza_component
              /\ orders[i].items[a].quantity > 1
        /\ \E a \in ItemsOfType(orders[i], "drink") : \E b \in ItemsOfType(orders[i], "drink") :
              orders[i].items[a].price > orders[i].items[b].price /\ orders[i].items[a].quantity > 1


\* the pizza lines' total of a committed order
PizzaSubtotal(order) ==
    SumSeq([i \in DOMAIN order.items |->
              IF order.items[i].type = "pizza"
              THEN order.items[i].price * order.items[i].quantity ELSE 0])

\* C13: an order's loyalty discount is 10% of max(pizza subtotal - birthday
\* pizza component, 0), once, when the pizzas since the last reward plus the
\* order's pizza units reach 10 and the pizza subtotal is positive, however
\* many blocks of 10 are crossed; otherwise it is 0.  The stored amount is
\* that value rounded to the cent.
C13_LoyaltyDiscount ==
    \A i \in OrderIds :
        LET o == orders[i]
        IN  /\ IF o.since_before + PizzaUnits(o) >= 10 /\ PizzaSubtotal(o) > 0
               THEN 10 * o.raw_loyalty = Max(PizzaSubtotal(o) - o.birthday_pizza_component, 0)
               ELSE o.raw_loyalty = 0
            /\ o.loyalty_discount_amount = Quantize(o.raw_loyalty)

\* a birthday order that crossed two blocks of 10 pizzas
C13_Witness ==
    \E i \in OrderIds :
        /\ orders[i].since_before + PizzaUnits(orders[i]) >= 20
        /\ orders[i].birthday_pizza_component > 0
        /\ orders[i].raw_loyalty > 0


\* pizzas_since_last_reward of customer c's loyalty row (0 without a row: a
\* new account starts at 0)
SinceLastReward(c) ==
    IF LoyaltyPks(c) = {} THEN 0
    ELSE loyaltyTbl[CHOOSE i \in LoyaltyPks(c) : TRUE].pizzas_since_last_reward

\* C14: the step that commits a placement takes the customer's stored
\* pizzas_since_last_reward from its previous value v to
\* (v + the order's pizza units) mod 10, discount or not.
C14_SinceLastRewardAdvances ==
    [][\A p \in Procs : \A c \in Customers :
          (pc[p] = "commit" /\ result'[p] = "committed" /\ req[p].customer = c)
              => SinceLastReward(c)' = (SinceLastReward(c) + PizzaUnits(tx[p].order[1])) % 10]_vars


\* the total of all lines of a committed order
ItemsSubtotal(order) ==
    SumSeq([i \in DOMAIN order.items |-> order.items[i].price * order.items[i].quantity])

\* C15: an order's code discount is computed against taxable = subtotal -
\* birthday discount - loyalty discount (unrounded): 0 without a code or when
\* taxable <= 0, taxable * value / 100 for a percentage code, and
\* min(value, taxable) for a fixed-amount code.  The stored amount is that
\* value rounded to the cent.
C15_CodeDiscount ==
    \A i \in OrderIds :
        LET o == orders[i]
            k == o.applied_discount_code
            taxable == ItemsSubtotal(o) - o.raw_birthday - o.raw_loyalty
        IN  /\ o.taxable_amount = taxable
            /\ IF k = Null \/ taxable <= 0
               THEN o.raw_code = 0
               ELSE IF CodeRows[k].discount_type = "percentage"
               THEN \* raw_code / value = taxable / 10^4, value being in hundredths of a percent
                    /\ taxable % Milli = 0
                    /\ o.raw_code % CodeRows[k].discount_value = 0
                    /\ o.raw_code \div CodeRows[k].discount_value = taxable \div Milli
               ELSE o.raw_code = Min(Dec(CodeRows[k].discount_value), taxable)
            /\ o.code_discount_amount = Quantize(o.raw_code)

\* a fixed-amount code cut down to a taxable amount that a loyalty discount
\* had reduced
C15_Witness ==
    \E i \in OrderIds :
        /\ orders[i].applied_discount_code # Null
        /\ CodeRows[orders[i].applied_discount_code].discount_type = "fixed_amount"
        /\ orders[i].raw_loyalty > 0
        /\ orders[i].raw_code = orders[i].taxable_amount
        /\ orders[i].raw_code < Dec(CodeRows[orders[i].applied_discount_code].discount_value)


\* C16: the courier a delivery placement takes is, in the store as it is at
\* that step, active, assigned to the customer's postal area, and free
\* (next_available_at null or <= the order timestamp); and the courier on the
\* committed order is the one the placement took.
C16_AssignedCourierWasEligible ==
    [][\A p \in Procs : \A c \in Couriers :
          /\ (pc[p] = "assign" /\ tx'[p].courier = c)
                => /\ CourierActive[c]
                   /\ PostalCode(req[p].customer) \in DOMAIN ZoneAssignments[c]
                   /\ (courierNext[c] = Null \/ courierNext[c] <= odt[p])
          /\ (pc[p] = "commit" /\ result'[p] = "committed"
                /\ orders'[Len(orders')].delivery_person = c)
                => tx[p].courier = c]_vars

\* a committed delivery by a courier who was out when the clock started
C16_Witness ==
    \E i \in OrderIds : \E c \in Couriers :
        /\ orders[i].delivery_person = c
        /\ InitCourierNext[c] # Null
        /\ InitCourierNext[c] <= orders[i].order_datetime


\* C17: the courier a delivery placement takes comes, in the order (priority
\* ascending, next_available_at ascending with null before any timestamp, id
\* ascending), before every other eligible, unlocked courier of that step.
C17_FirstWithNullsFirst ==
    [][\A p \in Procs : \A c \in Couriers :
          (pc[p] = "assign" /\ tx'[p].courier = c)
              => \A d \in Candidates(p) \ {c} :
                    LET priority(x) == ZoneAssignments[x][PostalCode(req[p].customer)]
                    IN  \/ priority(c) < priority(d)
                        \/ /\ priority(c) = priority(d)
                           /\ \/ courierNext[c] = Null /\ courierNext[d] # Null
                              \/ /\ courierNext[c] # Null
                                 /\ courierNext[d] # Null
                                 /\ courierNext[c] < courierNext[d]
                              \/ courierNext[c] = courierNext[d] /\ c < d]_vars

\* C18: the step that commits a delivery placement with order timestamp T
\* sets the chosen courier's next_available_at to T + 30 minutes, leaves every
\* other courier's next_available_at as it was, and adds an order that
\* records that courier with driver_assigned_at = T.
C18_DeliveryCommitEffect ==
    [][\A p \in Procs :
          (pc[p] = "commit" /\ result'[p] = "committed" /\ req[p].delivery_type = "delivery")
              => \E c \in Couriers :
                    /\ orders'[Len(orders')].delivery_person = c
                    /\ orders'[Len(orders')].order_datetime = odt[p]
                    /\ orders'[Len(orders')].driver_assigned_at = odt[p]
                    /\ courierNext' = [courierNext EXCEPT ![c] = odt[p] + 30]]_vars

\* a delivery committed after the clock had moved past its order timestamp:
\* its courier is out until 30 minutes after the order timestamp
C18_Witness ==
    \E i \in OrderIds : \E c \in Couriers :
        /\ orders[i].delivery_person = c
        /\ orders[i].order_datetime < now
        /\ orders[i].driver_assigned_at = orders[i].order_datetime
        /\ courierNext[c] = orders[i].order_datetime + 30
        /\ \A d \in Couriers \ {c} : courierNext[d] = InitCourierNext[d]


\* C19: a pickup placement passes the assignment step without taking a
\* courier and without failing; the step that commits it changes no courier's
\* next_available_at and adds an order with null delivery_person and null
\* driver_assigned_at.
C19_PickupSkipsAssignment ==
    [][\A p \in Procs :
          req[p].delivery_type = "pickup" =>
              /\ (pc[p] = "assign" /\ pc'[p] # "assign")
                    => (pc'[p] = "commit" /\ tx'[p].courier = Null)
              /\ (pc[p] = "commit" /\ result'[p] = "committed")
                    => /\ courierNext' = courierNext
                       /\ orders'[Len(orders')].delivery_type = "pickup"
                       /\ orders'[Len(orders')].delivery_person = Null
                       /\ orders'[Len(orders')].driver_assigned_at = Null]_vars

\* the latest order is a pickup, committed while no courier serving the
\* customer's area is free at its order timestamp
C19_Witness ==
    /\ orders # <<>>
    /\ orders[Len(orders)].delivery_type = "pickup"
    /\ orders[Len(orders)].delivery_person = Null
    /\ CandidatesIn(courierNext, PostalCode(orders[Len(orders)].customer),
                    orders[Len(orders)].order_datetime) = {}


\* C20: every committed order keeps the delivery mode it was requested with,
\* and every committed delivery order has a courier; a delivery placement that
\* reaches the assignment step with no eligible, unlocked courier ends there
\* with NoCourierAvailable.
C20_DeliveryOrdersHaveCourier ==
    /\ [](\A i \in OrderIds :
             /\ orders[i].delivery_type = orders[i].request.delivery_type
             /\ orders[i].delivery_type = "delivery" => orders[i].delivery_person \in Couriers)
    /\ [][\A p \in Procs :
             (pc[p] = "assign" /\ pc'[p] # "assign" /\ req[p].delivery_type = "delivery"
                 /\ Candidates(p) = {})
                 => (pc'[p] = "done" /\ result'[p] = "NoCourierAvailable" /\ orders' = orders)]_vars

\* one delivery was committed with the area's only free courier, and another
\* delivery placement failed for want of a courier
C20_Witness ==
    /\ \E p \in Procs : result[p] = "NoCourierAvailable"
    /\ \E i \in OrderIds :
          orders[i].delivery_type = "delivery" /\ orders[i].delivery_person \in Couriers


\* C21: a placement at the assignment step can always take that step, whatever
\* rows other placements hold; a delivery placement taking it fails with
\* NoCourierAvailable when every courier that is active, serves the area and
\* is free is held by another placement, and otherwise takes one of those not
\* held.
C21_AssignmentNeverWaits ==
    /\ [](\A p \in Procs : pc[p] = "assign" => ENABLED AssignDelivery(p))
    /\ [][\A p \in Procs :
             (pc[p] = "assign" /\ pc'[p] # "assign" /\ req[p].delivery_type = "delivery")
                 => LET unlocked ==
                            {c \in Couriers :
                                /\ CourierActive[c]
                                /\ PostalCode(req[p].customer) \in DOMAIN ZoneAssignments[c]
                                /\ (courierNext[c] = Null \/ courierNext[c] <= odt[p])
                                /\ \A q \in Procs \ {p} : tx[q].courier # c}
                    IN  IF unlocked = {}
                        THEN result'[p] = "NoCourierAvailable"
                        ELSE tx'[p].courier \in unlocked]_vars

\* a delivery placement has failed for want of a courier while another
\* placement, not yet committed, holds the courier row
C21_Witness ==
    \E p \in Procs : \E q \in Procs \ {p} :
        /\ result[p] = "NoCourierAvailable"
        /\ pc[q] = "commit"
        /\ tx[q].courier \in Couriers


\* C22: every placement that has started ends, committed or failed.
C22_EveryPlacementEnds ==
    \A p \in Procs : (pc[p] \notin {"idle", "done"}) ~> (pc[p] = "done")

\* a running placement that cannot take its next step: it waits for a row
\* another placement holds
C22_Witness ==
    \E p \in Procs : pc[p] \notin {"idle", "done"} /\ ~ENABLED Step(p)


\* C23: a placement that supplies a code stops at the lookup, with no order,
\* when no code row has that code (CodeNotFound), when the row is inactive or
\* today is before valid_from or after valid_until (CodeNotCurrentlyValid),
\* and when used_count has reached usage_limit (CodeFullyRedeemed); and every
\* committed order placed with a code carries that code, which was active and
\* within its validity dates on the order's day.
C23_InvalidCodeFailsPlacement ==
    /\ [](\A i \in OrderIds :
             orders[i].request.discount_code # <<>>
                 => /\ orders[i].applied_discount_code \in CodeMatches(orders[i].request.discount_code)
                    /\ CodeRows[orders[i].applied_discount_code].is_active
                    /\ CodeRows[orders[i].applied_discount_code].valid_from
                           <= DateOf(orders[i].order_datetime)
                    /\ \/ CodeRows[orders[i].applied_discount_code].valid_until = Null
                       \/ CodeRows[orders[i].applied_discount_code].valid_until
                              >= DateOf(orders[i].order_datetime))
    /\ [][\A p \in Procs :
             (pc[p] = "resolve" /\ pc'[p] # "resolve" /\ req[p].discount_code # <<>>)
                 => LET matching == CodeMatches(req[p].discount_code)
                        today == DateOf(now)
                        Outdated(k) ==
                            \/ ~CodeRows[k].is_active
                            \/ CodeRows[k].valid_from > today
                            \/ CodeRows[k].valid_until # Null /\ CodeRows[k].valid_until < today
                    IN  /\ matching = {}
                              => (pc'[p] = "done" /\ result'[p] = "CodeNotFound")
                        /\ \A k \in matching :
                              /\ Outdated(k)
                                    => (pc'[p] = "done" /\ result'[p] = "CodeNotCurrentlyValid")
                              /\ (~Outdated(k) /\ usedCount[k] >= CodeRows[k].usage_limit)
                                    => (pc'[p] = "done" /\ result'[p] = "CodeFullyRedeemed")
                              /\ (~Outdated(k) /\ usedCount[k] < CodeRows[k].usage_limit)
                                    => pc'[p] = "loyalty"]_vars

\* a placement was turned away because an earlier order had taken the code's
\* last use
C23_Witness ==
    \E p \in Procs : \E k \in CodeIds :
        /\ result[p] = "CodeFullyRedeemed"
        /\ RedeemedOrders(k) # {}
        /\ usedCount[k] = CodeRows[k].usage_limit


\* C24: when the usage check runs for a one-time code of which the customer
\* already holds a redemption, the placement ends with CodeAlreadyUsed and no
\* order; for a code that is not one-time the check lets the placement go on,
\* redemption or not.
C24_OneTimeCodeRejectedOnReuse ==
    [][\A p \in Procs : \A c \in Customers : \A k \in CodeIds :
          (/\ pc[p] = "validate" /\ pc'[p] # "validate"
           /\ req[p].customer = c /\ dcode[p].pk = k)
              => /\ (CodeRows[k].is_one_time /\ redemptions[<<c, k>>] > 0)
                        => /\ pc'[p] = "done"
                           /\ result'[p] = "CodeAlreadyUsed"
                           /\ orders' = orders
                 /\ ~CodeRows[k].is_one_time
                        => /\ pc'[p] = "build"
                           /\ result'[p] = "running"]_vars

\* a placement was turned away with CodeAlreadyUsed after an order of the same
\* customer, discounted by the same one-time code, had been committed
C24_Witness ==
    \E p \in Procs : \E i \in OrderIds :
        /\ result[p] = "CodeAlreadyUsed"
        /\ orders[i].applied_discount_code # Null
        /\ CodeRows[orders[i].applied_discount_code].is_one_time
        /\ orders[i].code_discount_amount > 0
        /\ redemptions[<<orders[i].customer, orders[i].applied_discount_code>>] > 0

\* C25: a placement whose options name no pizza, or give some pizza, drink or
\* dessert a quantity that is not a positive integer, ends at once with
\* InvalidRequest and no order, whoever the customer is and whatever code it
\* carries.
C25_InvalidRequestRejected ==
    [][\A p \in Procs : \A r \in Requests :
          LET BadQuantity(raw) ==
                  ~(\/ raw.form = "id"
                    \/ raw.form = "id:qty" /\ raw.qty \in Nat \ {0})
              Raws == {r.pizza[i] : i \in DOMAIN r.pizza}
                          \cup {r.drink[i] : i \in DOMAIN r.drink}
                          \cup {r.dessert[i] : i \in DOMAIN r.dessert}
          IN  (/\ Len(r.pizza) = 0 \/ \E raw \in Raws : BadQuantity(raw)
               /\ LoadCustomer(p, r, MaxPlacements))
                  => /\ pc'[p] = "done"
                     /\ result'[p] = "InvalidRequest"
                     /\ orders' = orders
                     /\ tx'[p] = EmptyTx]_vars

\* a placement has ended with InvalidRequest
C25_Witness ==
    \E p \in Procs : pc[p] = "done" /\ result[p] = "InvalidRequest"


\* C26: no order is committed for a placement that names a pizza, drink or
\* dessert that does not exist or is inactive: every line of every committed
\* order is an active catalog item.
C26_OrderedItemsAreActive ==
    \A i \in OrderIds : \A j \in DOMAIN orders[i].items :
        LET item == orders[i].items[j]
        IN  /\ item.type = "pizza"
                 => item.id \in DOMAIN PizzaActive /\ PizzaActive[item.id]
            /\ item.type = "drink"
                 => item.id \in DOMAIN DrinkRows /\ DrinkRows[item.id].is_active
            /\ item.type = "dessert"
                 => item.id \in DOMAIN DessertRows /\ DessertRows[item.id].is_active


\* C27: when the item lookup fails, the error lists every requested identifier
\* of the failing kind that did not resolve (pizzas are looked up first, then
\* drinks, then desserts), not just one of them.
C27_AllMissingIdsReported ==
    [][\A p \in Procs :
          (pc[p] = "build" /\ pc'[p] = "done")
              => LET IdsOf(raws) == {raws[i].ident : i \in DOMAIN raws}
                     unresolvedPizzas == IdsOf(req[p].pizza) \ DOMAIN PizzaPricingRows
                     unresolvedDrinks ==
                         {id \in IdsOf(req[p].drink) :
                             id \notin DOMAIN DrinkRows \/ ~DrinkRows[id].is_active}
                     unresolvedDesserts ==
                         {id \in IdsOf(req[p].dessert) :
                             id \notin DOMAIN DessertRows \/ ~DessertRows[id].is_active}
                 IN  /\ result'[p] = "UnknownOrInactiveProduct"
                     /\ report'[p] # {}
                     /\ report'[p] = IF unresolvedPizzas # {} THEN unresolvedPizzas
                                     ELSE IF unresolvedDrinks # {} THEN unresolvedDrinks
                                     ELSE unresolvedDesserts]_vars

\* a placement failed on several identifiers of one kind and its error lists
\* more than one
C27_Witness ==
    \E p \in Procs :
        /\ result[p] = "UnknownOrInactiveProduct"
        /\ Cardinality(report[p]) >= 2


\* C28: the unit prices of an order are the catalog prices at the moment its
\* items were resolved, its subtotal is computed from them, and from then on
\* neither they nor the order's amounts change: not before the commit, not at
\* the commit, and not afterwards, whatever happens to the catalog.
C28_PricesFixedAtResolution ==
    [][LET Amounts(o) ==
               <<o.items, o.subtotal_amount, o.birthday_discount_amount,
                 o.loyalty_discount_amount, o.code_discount_amount,
                 o.discount_amount, o.total_due>>
       IN  /\ \A i \in OrderIds :
                 /\ i <= Len(orders')
                 /\ Amounts(orders'[i]) = Amounts(orders[i])
           /\ \A p \in Procs :
                 /\ (pc[p] = "build" /\ pc'[p] = "apply")
                       => /\ \A k \in DOMAIN tx'[p].order[1].items :
                                tx'[p].order[1].items[k].price
                                    = catalog[tx'[p].order[1].items[k].type]
                                             [tx'[p].order[1].items[k].id] * Cent
                          /\ tx'[p].order[1].subtotal_amount = ItemsSubtotal(tx'[p].order[1])
                 /\ (tx[p].order # <<>> /\ tx'[p].order # <<>>)
                       => Amounts(tx'[p].order[1]) = Amounts(tx[p].order[1])
                 /\ (pc[p] = "commit" /\ result'[p] = "committed")
                       => /\ Len(orders') = Len(orders) + 1
                          /\ Amounts(orders'[Len(orders')]) = Amounts(tx[p].order[1])]_vars

\* two committed orders hold the same item at different unit prices, and one
\* of them no longer matches the catalog
C28_Witness ==
    \E i, j \in OrderIds : \E k \in DOMAIN orders[i].items : \E l \in DOMAIN orders[j].items :
        /\ orders[i].items[k].type = orders[j].items[l].type
        /\ orders[i].items[k].id = orders[j].items[l].id
        /\ orders[i].items[k].price # orders[j].items[l].price
        /\ orders[i].items[k].price
               # catalog[orders[i].items[k].type][orders[i].items[k].id] * Cent


\* C29: when a placement whose order has a code discount above zero commits,
\* the code's used_count goes up by one, stopping at usage_limit, the customer
\* has a redemption of the code, and the order's discount application carries
\* the order's code discount.
C29_RedemptionRecorded ==
    [][\A p \in Procs : \A c \in Customers : \A k \in CodeIds :
          (/\ pc[p] = "commit" /\ result'[p] = "committed"
           /\ req[p].customer = c /\ dcode[p].pk = k
           /\ tx[p].order[1].code_discount_amount > 0)
              => /\ usedCount'[k] = Min(CodeRows[k].usage_limit, usedCount[k] + 1)
                 /\ redemptions'[<<c, k>>] > 0
                 /\ orders'[Len(orders')].applied_discount_code = k
                 /\ orders'[Len(orders')].discount_application
                        = orders'[Len(orders')].code_discount_amount]_vars


\* C30: used_count and the redemption rows change only when a placement whose
\* order has a code discount above zero commits, and then only for that
\* placement's code and customer; the commit of a placement that carried a code
\* but got no discount from it leaves both as they were.
C30_OnlyDiscountedCommitsRedeem ==
    [][/\ (usedCount' # usedCount \/ redemptions' # redemptions)
              => \E p \in Procs : \E c \in Customers : \E k \in CodeIds :
                    /\ pc[p] = "commit" /\ result'[p] = "committed"
                    /\ req[p].customer = c /\ dcode[p].pk = k
                    /\ tx[p].order[1].code_discount_amount > 0
                    /\ \A k2 \in CodeIds \ {k} : usedCount'[k2] = usedCount[k2]
                    /\ \A pair \in (Customers \X CodeIds) \ {<<c, k>>} :
                          redemptions'[pair] = redemptions[pair]
       /\ \A p \in Procs :
              (/\ pc[p] = "commit" /\ result'[p] = "committed"
               /\ dcode[p].pk # Null
               /\ tx[p].order[1].code_discount_amount = 0)
                  => usedCount' = usedCount /\ redemptions' = redemptions]_vars

\* a customer placed an order with a one-time code that gave no discount, and
\* afterwards an order that the same code did discount
C30_Witness ==
    \E i, j \in OrderIds :
        /\ i < j
        /\ orders[i].customer = orders[j].customer
        /\ orders[i].applied_discount_code # Null
        /\ orders[i].applied_discount_code = orders[j].applied_discount_code
        /\ CodeRows[orders[i].applied_discount_code].is_one_time
        /\ orders[i].code_discount_amount = 0
        /\ orders[j].code_discount_amount > 0


\* C31: failures come in the order of the steps.  A placement that names a
\* product that does not resolve and a code the lookup rejects ends with the
\* code's error; one that names such a product and a one-time code its
\* customer has redeemed ends with CodeAlreadyUsed; a placement naming such a
\* product never gets past item resolution, where it ends with
\* UnknownOrInactiveProduct whether or not a courier is free; and
\* NoCourierAvailable ends only a delivery placement whose order is priced.
C31_FailuresInStepOrder ==
    [][\A p \in Procs :
          LET IdsOf(raws) == {raws[i].ident : i \in DOMAIN raws}
              unresolved ==
                  \/ IdsOf(req[p].pizza) \ DOMAIN PizzaPricingRows # {}
                  \/ \E id \in IdsOf(req[p].drink) :
                        id \notin DOMAIN DrinkRows \/ ~DrinkRows[id].is_active
                  \/ \E id \in IdsOf(req[p].dessert) :
                        id \notin DOMAIN DessertRows \/ ~DessertRows[id].is_active
              matching == CodeMatches(req[p].discount_code)
              today == DateOf(now)
              Rejected(k) ==
                  \/ ~CodeRows[k].is_active
                  \/ CodeRows[k].valid_from > today
                  \/ CodeRows[k].valid_until # Null /\ CodeRows[k].valid_until < today
                  \/ usedCount[k] >= CodeRows[k].usage_limit
              CodeErrors == {"CodeNotFound", "CodeNotCurrentlyValid", "CodeFullyRedeemed"}
              ended == pc'[p] = "done" /\ (pc[p] \notin {"idle", "done"} \/ result'[p] # result[p])
          IN  /\ (/\ pc[p] = "resolve" /\ pc'[p] # "resolve"
                  /\ unresolved /\ req[p].discount_code # <<>>
                  /\ (matching = {} \/ \E k \in matching : Rejected(k)))
                     => (pc'[p] = "done" /\ result'[p] \in CodeErrors)
              /\ (/\ pc[p] = "validate" /\ pc'[p] # "validate"
                  /\ unresolved /\ dcode[p].pk # Null
                  /\ CodeRows[dcode[p].pk].is_one_time
                  /\ redemptions[<<req[p].customer, dcode[p].pk>>] > 0)
                     => (pc'[p] = "done" /\ result'[p] = "CodeAlreadyUsed")
              /\ (pc[p] \notin {"idle", "done"} /\ unresolved)
                     => /\ pc'[p] \in {"resolve", "loyalty", "validate", "build", "done"}
                        /\ result'[p] \notin {"NoCourierAvailable", "committed"}
              /\ (pc[p] = "build" /\ pc'[p] # "build" /\ unresolved)
                     => (pc'[p] = "done" /\ result'[p] = "UnknownOrInactiveProduct")
              /\ (ended /\ result'[p] = "UnknownOrInactiveProduct")
                     => /\ pc[p] = "build"
                        /\ req[p].discount_code # <<>> => dcode[p].pk # Null
              /\ (ended /\ result'[p] = "NoCourierAvailable")
                     => /\ pc[p] = "assign"
                        /\ req[p].delivery_type = "delivery"
                        /\ tx[p].order # <<>>]_vars

\* a delivery placement naming the unknown pizza 7 ended with
\* UnknownOrInactiveProduct while the other placement held the only courier
\* that was free for the area
C31_Witness ==
    \E p \in Procs : \E q \in Procs \ {p} :
        /\ result[p] = "UnknownOrInactiveProduct"
        /\ report[p] = {7}
        /\ tx[q].courier # Null
        /\ \A c \in Couriers \ {tx[q].courier} :
              ~(/\ CourierActive[c]
                /\ PostalCode(req[q].customer) \in DOMAIN ZoneAssignments[c]
                /\ (courierNext[c] = Null \/ courierNext[c] <= now))


\* C32: a customer never has two loyalty rows.  A placement of a customer it
\* loaded without a row inserts one with both counters at zero, and when it
\* commits the customer has exactly that row, holding the pizza count of the
\* customer's committed orders; a placement that loaded no row commits only
\* if no row for the customer was committed meanwhile.
C32_OneLoyaltyAccount ==
    /\ [](\A c \in Customers : Cardinality(LoyaltyPks(c)) <= 1)
    /\ [][\A p \in Procs : \A c \in Customers :
             /\ (/\ pc[p] = "loyalty" /\ pc'[p] = "validate"
                 /\ loyalty[p].pk = Null)
                   => /\ tx'[p].loyalty_insert
                      /\ tx'[p].loyalty_row
                             = <<[lifetime_pizzas |-> 0, pizzas_since_last_reward |-> 0]>>
             /\ (/\ pc[p] = "commit" /\ result'[p] = "committed"
                 /\ req[p].customer = c /\ tx[p].loyalty_insert)
                   => /\ LoyaltyPks(c) = {}
                      /\ Cardinality(LoyaltyPks(c)') = 1
                      /\ LifetimePizzas(c)'
                             = SumSeq([i \in DOMAIN orders' |->
                                          IF orders'[i].customer = c
                                          THEN PizzaUnits(orders'[i]) ELSE 0])]_vars

\* two placements of a customer without a loyalty row overlapped: one
\* committed and created the row with its pizza count, the other was stopped
\* by the row's uniqueness
C32_Witness ==
    \E p \in Procs : \E c \in Customers :
        /\ result[p] = "IntegrityError"
        /\ InitLifetimePizzas(c) = 0
        /\ Cardinality(LoyaltyPks(c)) = 1
        /\ LifetimePizzas(c) > 0
        /\ LifetimePizzas(c)
               = SumSeq([i \in DOMAIN orders |->
                            IF orders[i].customer = c THEN PizzaUnits(orders[i]) ELSE 0])


\* C33: no (customer, code) pair ever has more than one redemption row.
C33_OneRedemptionPerPair ==
    \A pair \in Customers \X CodeIds : redemptions[pair] <= 1

\* one customer has two committed orders discounted by the same code, which is
\* not one-time, the second resolved before the first committed, and the pair
\* has its one redemption row
C33_Witness ==
    \E i, j \in OrderIds :
        /\ i < j
        /\ orders[i].customer = orders[j].customer
        /\ orders[i].applied_discount_code # Null
        /\ orders[i].applied_discount_code = orders[j].applied_discount_code
        /\ ~CodeRows[orders[i].applied_discount_code].is_one_time
        /\ orders[i].code_discount_amount > 0
        /\ orders[j].code_discount_amount > 0
        /\ usedCount[orders[i].applied_discount_code]
               < InitUsedCount[orders[i].applied_discount_code] + 2
        /\ redemptions[<<orders[i].customer, orders[i].applied_discount_code>>] = 1


\* C34: a committed order has one line per entry of its request, the pizzas
\* first, then the drinks, then the desserts, each with the entry's product
\* and quantity (1 when none is given), and so at least one pizza line; its
\* subtotal is the sum of unit price times quantity over the lines; and the
\* pizza count the placement adds to the loyalty counters is the sum of the
\* pizza lines' quantities.
C34_LineItemsMatchRequest ==
    /\ [](\A i \in OrderIds :
             LET r == orders[i].request
                 Entry(kind, raw) ==
                     [type |-> kind, id |-> raw.ident,
                      quantity |-> IF raw.form = "id" THEN 1 ELSE raw.qty]
                 requested ==
                     [k \in DOMAIN r.pizza |-> Entry("pizza", r.pizza[k])]
                     \o [k \in DOMAIN r.drink |-> Entry("drink", r.drink[k])]
                     \o [k \in DOMAIN r.dessert |-> Entry("dessert", r.dessert[k])]
                 lines == orders[i].items
             IN  /\ Len(lines) = Len(requested)
                 /\ \A k \in DOMAIN lines :
                       /\ lines[k].type = requested[k].type
                       /\ lines[k].id = requested[k].id
                       /\ lines[k].quantity = requested[k].quantity
                 /\ Len(lines) >= 1 /\ lines[1].type = "pizza"
                 /\ orders[i].subtotal_amount
                        = SumSeq([k \in DOMAIN lines |-> lines[k].price * lines[k].quantity]))
    /\ [][\A p \in Procs :
             (pc[p] = "build" /\ pc'[p] = "apply")
                 => loyalty'[p].lifetime_pizzas
                        = loyalty[p].lifetime_pizzas + PizzaUnits(tx'[p].order[1])]_vars

\* an order with two pizza lines followed by two drink lines, three pizzas in
\* all
C34_Witness ==
    \E i \in OrderIds :
        /\ Len(orders[i].items) = 4
        /\ orders[i].items[2].type = "pizza"
        /\ orders[i].items[3].type = "drink"
        /\ PizzaUnits(orders[i]) = 3

\* C35: no step lowers the used_count of any code.
C35_UsedCountNeverDecreases ==
    [][\A k \in CodeIds : usedCount'[k] >= usedCount[k]]_vars

\* C36: for every code, used_count has grown from its initial value by the
\* number of committed orders that the code discounted.
C36_UsedCountCountsRedemptions ==
    \A k \in CodeIds :
        usedCount[k] - InitUsedCount[k] = Cardinality(RedeemedOrders(k))

=============================================================================
